---- MODULE Spec2Model ----
(***************************************************************************)
(* Model of the car-sales back office: the sale ledger (sale_service.py,   *)
(* sale_repository_impl.py, sale_dto.py), the image manager                *)
(* (vehicle_image_service.py, vehicle_image_repository_impl.py) and the    *)
(* message tracker (message_service.py, message_repository_impl.py).       *)
(*                                                                         *)
(* Money is counted in whole currency units; the model's amounts are       *)
(* multiples of 100 and its rates whole percents, so that                  *)
(* total * rate / 100 is exact, as it is for Python's Decimal.             *)
(* An optional request field is a set: {} is None (field not supplied),    *)
(* {v} is the supplied value v.                                            *)
(***************************************************************************)
EXTENDS Integers, Sequences, FiniteSets, TLC

VARIABLES sales, nextSaleId, vehicles, images, nextImageId, messages,
          nextMessageId, tokens, blacklist, loggedOut, clock, nextJti,
          clients, nextClientId, employees, nextEmployeeId, requests, lastCall

vars == <<sales, nextSaleId, vehicles, images, nextImageId, messages,
          nextMessageId, tokens, blacklist, loggedOut, clock, nextJti,
          clients, nextClientId, employees, nextEmployeeId, requests, lastCall>>

saleVars == <<sales, nextSaleId, vehicles>>
imageVars == <<images, nextImageId>>
messageVars == <<messages, nextMessageId>>
authVars == <<tokens, blacklist, loggedOut, clock, nextJti>>
partyVars == <<clients, nextClientId, employees, nextEmployeeId>>

(***************************************************************************)
(* Bounds of the model.                                                    *)
(***************************************************************************)
MaxSaleId == 1
MaxImageId == 5
MaxUploadedId == 11
MaxMessageId == 2
MaxJti == 2
MaxNow == 60
MaxClientId == 2
MaxEmployeeId == 2
MaxSlot == 2
MaxRaceImageId == 3

\* The elements of a set of ids in ascending order.
RECURSIVE IdsAscending(_)
IdsAscending(S) ==
    IF S = {} THEN <<>>
    ELSE LET m == CHOOSE x \in S : \A y \in S : x <= y
         IN <<m>> \o IdsAscending(S \ {m})

\* Python truthiness of an optional number (None and 0 are falsy) and of an
\* optional string (None and the empty string are falsy).
Truthy(opt) == opt # {} /\ opt # {0}
TruthyStr(opt) == opt # {} /\ opt # {""}

\* Python's `a or b` for an optional number a and a plain value b.
PyOr(opt, default) == IF Truthy(opt) THEN CHOOSE v \in opt : TRUE ELSE default

\* The value of a supplied optional field.
Val(opt) == CHOOSE v \in opt : TRUE

\* The requests in flight: each slot holds one request and the step it is at,
\* or is idle.
Slots == 1..MaxSlot
Idle == [op |-> "idle"]

(***************************************************************************)
(* Sale ledger                                                             *)
(***************************************************************************)
ValidPaymentMethods ==
    {"À vista", "Cartão de crédito", "Cartão de débito",
     "Financiamento", "Consórcio", "PIX"}

ValidSaleStatuses == {"Pendente", "Confirmada", "Paga", "Entregue", "Cancelada"}

STATUS_PENDENTE == "Pendente"
STATUS_CONFIRMADA == "Confirmada"

\* Sale.is_valid_payment_method and Sale.is_valid_status.
is_valid_payment_method(m) == m \in ValidPaymentMethods
is_valid_status(s) == s \in ValidSaleStatuses

\* The attributes of class MotorVehicle: its columns, and nothing else.
MotorVehicleAttrs ==
    {"id", "model", "year", "mileage", "fuel_type", "color", "city",
     "additional_description", "price", "status", "created_at", "updated_at"}

VehicleIds == {1, 2}
VehicleKind == (1 :> "car") @@ (2 :> "motorcycle")

\* Inputs of the sale operations.
TotalAmounts == {100, 200}
DiscountAmounts == {0, 100, 200}
TaxAmounts == {0, 100}
CommissionRates == {0, 50}
PaymentInputs == {"PIX", "Boleto"}
StatusInputs == {"Pendente", "Confirmada", "Cancelada", "Aberta"}

Opt(S) == {{}} \cup {{v} : v \in S}

\* The create requests of the model: any vehicle, total and discount; tax and
\* commission rate both omitted or both supplied; a request with a payment
\* method outside the allow-list supplies no optional field.
CreateSaleRequests ==
    {req \in [client_id : {1}, employee_id : {1}, sale_date : {1},
              vehicle_id : VehicleIds, total_amount : TotalAmounts,
              payment_method : PaymentInputs, discount_amount : Opt(DiscountAmounts),
              tax_amount : {{}, {100}}, commission_rate : {{}, {50}}] :
        /\ (req.tax_amount = {}) <=> (req.commission_rate = {})
        /\ req.payment_method \notin ValidPaymentMethods =>
              (req.discount_amount = {} /\ req.tax_amount = {})}

Supplied(req) ==
    Cardinality({f \in DOMAIN req : req[f] # {}})

\* The update requests of the model: at most one field supplied, or
\* total_amount and discount_amount together.
UpdateSaleRequests ==
    {req \in [total_amount : Opt(TotalAmounts), payment_method : Opt(PaymentInputs),
              status : Opt(StatusInputs), discount_amount : Opt(DiscountAmounts),
              tax_amount : Opt(TaxAmounts), commission_rate : Opt(CommissionRates)] :
        \/ Supplied(req) <= 1
        \/ (Supplied(req) = 2 /\ req.total_amount # {} /\ req.discount_amount # {})}

\* CreateSaleRequest: the two validators of the DTO (total_amount > 0 and the
\* ge=0 / le=100 ranges hold of every input of the model).
CreateSaleRequestValid(req) ==
    /\ req.payment_method \in ValidPaymentMethods
    /\ req.discount_amount # {} => ~(Val(req.discount_amount) > req.total_amount)

\* UpdateSaleRequest: the validators of payment_method and status.
UpdateSaleRequestValid(req) ==
    /\ req.payment_method # {} => Val(req.payment_method) \in ValidPaymentMethods
    /\ req.status # {} => Val(req.status) \in ValidSaleStatuses

\* UpdateSaleStatusRequest: the validator of status.
UpdateSaleStatusRequestValid(status) == status \in ValidSaleStatuses

\* Sale.calculate_commission: commission_amount = total_amount * commission_rate / 100.
calculate_commission(total, rate) == (total * rate) \div 100

\* Sale.calculate_final_amount.
calculate_final_amount(sale) ==
    sale.total_amount - sale.discount_amount + sale.tax_amount

\* Sale.create_sale: the new entity, status Pendente, commission computed.
Sale_create_sale(vehicle_id, total, payment, discount, tax, rate) ==
    [vehicle_id |-> vehicle_id, total_amount |-> total, payment_method |-> payment,
     status |-> STATUS_PENDENTE, discount_amount |-> discount, tax_amount |-> tax,
     commission_rate |-> rate, commission_amount |-> calculate_commission(total, rate)]

\* The columns of a sale that its listing filters on besides status and
\* payment method: the client, the employee and the sale's date (a day number).
SaleParties(client_id, employee_id, sale_date) ==
    [client_id |-> client_id, employee_id |-> employee_id, sale_date |-> sale_date]

\* Sale.update_fields: every supplied (not None) field replaces the entity's,
\* then the commission is recomputed.
update_fields(sale, req) ==
    LET total == IF req.total_amount # {} THEN Val(req.total_amount) ELSE sale.total_amount
        rate == IF req.commission_rate # {} THEN Val(req.commission_rate) ELSE sale.commission_rate
    IN [vehicle_id |-> sale.vehicle_id,
        total_amount |-> total,
        payment_method |-> IF req.payment_method # {} THEN Val(req.payment_method)
                           ELSE sale.payment_method,
        status |-> IF req.status # {} THEN Val(req.status) ELSE sale.status,
        discount_amount |-> IF req.discount_amount # {} THEN Val(req.discount_amount)
                            ELSE sale.discount_amount,
        tax_amount |-> IF req.tax_amount # {} THEN Val(req.tax_amount) ELSE sale.tax_amount,
        commission_rate |-> rate,
        commission_amount |-> calculate_commission(total, rate)]

\* RepoUpdateSale with the derived column left out of the copy.
RepoUpdateSale_StaleCommission(existing, sale) ==
    [existing EXCEPT !.total_amount = sale.total_amount,
                     !.payment_method = sale.payment_method,
                     !.status = sale.status,
                     !.discount_amount = sale.discount_amount,
                     !.tax_amount = sale.tax_amount,
                     !.commission_rate = sale.commission_rate]

\* SaleRepositoryImpl.update_sale: every public field of the entity that is not
\* None is written to the stored row.
RepoUpdateSale(existing, sale) ==
    [existing EXCEPT !.total_amount = sale.total_amount,
                     !.payment_method = sale.payment_method,
                     !.status = sale.status,
                     !.discount_amount = sale.discount_amount,
                     !.tax_amount = sale.tax_amount,
                     !.commission_rate = sale.commission_rate,
                     !.commission_amount = sale.commission_amount]

\* SaleService._convert_to_sale_response.
_convert_to_sale_response(id, sale) ==
    [id |-> id, vehicle_id |-> sale.vehicle_id, total_amount |-> sale.total_amount,
     payment_method |-> sale.payment_method, status |-> sale.status,
     discount_amount |-> sale.discount_amount, tax_amount |-> sale.tax_amount,
     commission_rate |-> sale.commission_rate,
     commission_amount |-> sale.commission_amount,
     final_amount |-> calculate_final_amount(sale)]

\* UpdateSaleDiscountRejected checking a discount only when the request has one.
UpdateSaleDiscountRejected_OnlySupplied(existing, req) ==
    /\ Truthy(req.discount_amount)
    /\ Val(req.discount_amount) > PyOr(req.total_amount, existing.total_amount)

\* SaleService.update_sale, the discount rule: each side is `request value or
\* stored value`, so a supplied 0 falls back to the stored value.
UpdateSaleDiscountRejected(existing, req) ==
    LET total_amount == PyOr(req.total_amount, existing.total_amount)
        discount_amount == PyOr(req.discount_amount, existing.discount_amount)
    IN discount_amount > total_amount

NoBody == [id |-> 0]

NoArgs == [id |-> 0]

\* The record of the last call: the operation, its arguments, how it ended
\* and the body it returned.
Returned(op, args, result, body) ==
    [op |-> op, args |-> args, result |-> result, body |-> body]

\* CreateSaleRejected without the discount rule.
CreateSaleRejected_NoDiscountRule(req) ==
    \/ req.payment_method \notin ValidPaymentMethods
    \/ ~is_valid_payment_method(req.payment_method)

\* The validation of SaleService.create_sale and of its request DTO: the
\* request is refused when either rejects it.
CreateSaleRejected(req) ==
    \/ ~CreateSaleRequestValid(req)
    \/ ~is_valid_payment_method(req.payment_method)
    \/ (Truthy(req.discount_amount) /\ Val(req.discount_amount) > req.total_amount)

\* POST /sales: SaleService.create_sale.
create_sale(req) ==
    /\ IF CreateSaleRejected(req)
       THEN /\ lastCall' = Returned("create_sale", req, "invalid", NoBody)
            /\ UNCHANGED saleVars
       ELSE LET sale == SaleParties(req.client_id, req.employee_id, req.sale_date)
                            @@ Sale_create_sale(req.vehicle_id, req.total_amount,
                                                req.payment_method,
                                                PyOr(req.discount_amount, 0),
                                                PyOr(req.tax_amount, 0),
                                                PyOr(req.commission_rate, 0))
            IN /\ nextSaleId <= MaxSaleId
               /\ sales' = (nextSaleId :> sale) @@ sales
               /\ nextSaleId' = nextSaleId + 1
               /\ lastCall' = Returned("create_sale", req, "ok",
                                       _convert_to_sale_response(nextSaleId, sale))
               /\ UNCHANGED vehicles
    /\ UNCHANGED <<imageVars, messageVars, authVars, partyVars, requests>>

\* GET /sales/{id}: SaleService.get_sale_by_id.
get_sale_by_id(id) ==
    /\ IF id \notin DOMAIN sales
       THEN lastCall' = Returned("get_sale_by_id", [id |-> id], "not_found", NoBody)
       ELSE lastCall' = Returned("get_sale_by_id", [id |-> id], "ok",
                                 _convert_to_sale_response(id, sales[id]))
    /\ UNCHANGED <<saleVars, imageVars, messageVars, authVars, partyVars, requests>>

\* PUT /sales/{id}: SaleService.update_sale.
update_sale(id, req) ==
    /\ IF ~UpdateSaleRequestValid(req)
       THEN /\ lastCall' = Returned("update_sale", [id |-> id, req |-> req], "invalid", NoBody)
            /\ UNCHANGED saleVars
       ELSE IF id \notin DOMAIN sales
       THEN /\ lastCall' = Returned("update_sale", [id |-> id, req |-> req], "not_found", NoBody)
            /\ UNCHANGED saleVars
       ELSE IF \/ (TruthyStr(req.payment_method)
                      /\ ~is_valid_payment_method(Val(req.payment_method)))
               \/ (TruthyStr(req.status) /\ ~is_valid_status(Val(req.status)))
               \/ UpdateSaleDiscountRejected(sales[id], req)
       THEN /\ lastCall' = Returned("update_sale", [id |-> id, req |-> req], "invalid", NoBody)
            /\ UNCHANGED saleVars
       ELSE LET updated == RepoUpdateSale(sales[id], update_fields(sales[id], req))
            IN /\ sales' = [sales EXCEPT ![id] = updated]
               /\ lastCall' = Returned("update_sale", [id |-> id, req |-> req], "ok",
                                       _convert_to_sale_response(id, updated))
               /\ UNCHANGED <<nextSaleId, vehicles>>
    /\ UNCHANGED <<imageVars, messageVars, authVars, partyVars, requests>>

\* CarRepository.update_vehicle_status / MotorcycleRepository.update_vehicle_status:
\* both look the id up among all motor vehicles.
update_vehicle_status(vs, vehicle_id, status) ==
    IF vehicle_id \in DOMAIN vs THEN [vs EXCEPT ![vehicle_id] = status] ELSE vs

\* PATCH /sales/{id}/status: SaleService.update_sale_status.  The sale's status
\* is committed first; for Confirmada the service then evaluates
\* MotorVehicle.STATUS_VENDIDO, an attribute the class does not define, and the
\* AttributeError is re-raised as an internal error.  `fault` is the Car or
\* Motorcycle collaborator raising from update_vehicle_status: the service has
\* no handler around the two calls, so the error reaches the same except branch.
update_sale_status(id, status, fault) ==
    LET args == [id |-> id, status |-> status, fault |-> fault]
    IN /\ IF ~UpdateSaleStatusRequestValid(status) \/ ~is_valid_status(status)
          THEN /\ lastCall' = Returned("update_sale_status", args, "invalid", NoBody)
               /\ UNCHANGED saleVars
          ELSE IF id \notin DOMAIN sales
          THEN /\ lastCall' = Returned("update_sale_status", args, "not_found", NoBody)
               /\ UNCHANGED saleVars
          ELSE LET updated == [sales[id] EXCEPT !.status = status]
               IN /\ sales' = [sales EXCEPT ![id] = updated]
                  /\ UNCHANGED nextSaleId
                  /\ IF status # STATUS_CONFIRMADA
                     THEN /\ UNCHANGED vehicles
                          /\ lastCall' = Returned("update_sale_status", args, "ok",
                                                  _convert_to_sale_response(id, updated))
                     ELSE IF "STATUS_VENDIDO" \notin MotorVehicleAttrs \/ fault
                     THEN /\ UNCHANGED vehicles
                          /\ lastCall' = Returned("update_sale_status", args, "error", NoBody)
                     ELSE /\ vehicles' = update_vehicle_status(vehicles,
                                              sales[id].vehicle_id, "Vendido")
                          /\ lastCall' = Returned("update_sale_status", args, "ok",
                                                  _convert_to_sale_response(id, updated))
       /\ UNCHANGED <<imageVars, messageVars, authVars, partyVars, requests>>

\* delete_sale putting the vehicle of the deleted sale back on offer.
delete_sale_ReleasesVehicle(id) ==
    /\ IF id \notin DOMAIN sales
       THEN /\ lastCall' = Returned("delete_sale", [id |-> id], "not_found", NoBody)
            /\ UNCHANGED saleVars
       ELSE /\ sales' = [i \in DOMAIN sales \ {id} |-> sales[i]]
            /\ vehicles' = update_vehicle_status(vehicles, sales[id].vehicle_id, "Ativo")
            /\ lastCall' = Returned("delete_sale", [id |-> id], "ok", NoBody)
            /\ UNCHANGED nextSaleId
    /\ UNCHANGED <<imageVars, messageVars, authVars, partyVars, requests>>

\* DELETE /sales/{id}: SaleService.delete_sale.
delete_sale(id) ==
    /\ IF id \notin DOMAIN sales
       THEN /\ lastCall' = Returned("delete_sale", [id |-> id], "not_found", NoBody)
            /\ UNCHANGED saleVars
       ELSE /\ sales' = [i \in DOMAIN sales \ {id} |-> sales[i]]
            /\ lastCall' = Returned("delete_sale", [id |-> id], "ok", NoBody)
            /\ UNCHANGED <<nextSaleId, vehicles>>
    /\ UNCHANGED <<imageVars, messageVars, authVars, partyVars, requests>>

\* CarService.inactivate_car.
inactivate_car(car_id) ==
    /\ IF car_id \in DOMAIN vehicles /\ VehicleKind[car_id] = "car"
       THEN /\ vehicles' = [vehicles EXCEPT ![car_id] = "Inativo"]
            /\ lastCall' = Returned("inactivate_car", [id |-> car_id], "ok", NoBody)
       ELSE /\ UNCHANGED vehicles
            /\ lastCall' = Returned("inactivate_car", [id |-> car_id], "not_found", NoBody)
    /\ UNCHANGED <<sales, nextSaleId, imageVars, messageVars, authVars, partyVars, requests>>

\* MotorcycleService.inactivate_motorcycle.
inactivate_motorcycle(motorcycle_id) ==
    /\ IF motorcycle_id \in DOMAIN vehicles /\ VehicleKind[motorcycle_id] = "motorcycle"
       THEN /\ vehicles' = [vehicles EXCEPT ![motorcycle_id] = "Inativo"]
            /\ lastCall' = Returned("inactivate_motorcycle", [id |-> motorcycle_id], "ok", NoBody)
       ELSE /\ UNCHANGED vehicles
            /\ lastCall' = Returned("inactivate_motorcycle", [id |-> motorcycle_id], "not_found", NoBody)
    /\ UNCHANGED <<sales, nextSaleId, imageVars, messageVars, authVars, partyVars, requests>>

\* MotorcycleService.activate_motorcycle.
activate_motorcycle(motorcycle_id) ==
    /\ IF motorcycle_id \in DOMAIN vehicles /\ VehicleKind[motorcycle_id] = "motorcycle"
       THEN /\ vehicles' = [vehicles EXCEPT ![motorcycle_id] = "Ativo"]
            /\ lastCall' = Returned("activate_motorcycle", [id |-> motorcycle_id], "ok", NoBody)
       ELSE /\ UNCHANGED vehicles
            /\ lastCall' = Returned("activate_motorcycle", [id |-> motorcycle_id], "not_found", NoBody)
    /\ UNCHANGED <<sales, nextSaleId, imageVars, messageVars, authVars, partyVars, requests>>

\* MotorVehicle.__init__: the value of the parameter `status` when the caller
\* passes none.
MotorVehicle_default_status == "Ativo"

PriceInputs == {0, 100}

\* PUT /motorcycles/{id}: MotorcycleService.update_motorcycle.  The request
\* carries no status; the service builds a MotorVehicle without one, and the
\* repository copies every field of that entity, status included, to the row.
update_motorcycle(motorcycle_id, price) ==
    LET args == [id |-> motorcycle_id, price |-> price]
    IN /\ IF ~(price > 0)
          THEN /\ lastCall' = Returned("update_motorcycle", args, "invalid", NoBody)
               /\ UNCHANGED vehicles
          ELSE IF motorcycle_id \notin DOMAIN vehicles
                     \/ VehicleKind[motorcycle_id] # "motorcycle"
          THEN /\ lastCall' = Returned("update_motorcycle", args, "not_found", NoBody)
               /\ UNCHANGED vehicles
          ELSE /\ vehicles' = [vehicles EXCEPT ![motorcycle_id] = MotorVehicle_default_status]
               /\ lastCall' = Returned("update_motorcycle", args, "ok",
                                       [id |-> motorcycle_id,
                                        status |-> MotorVehicle_default_status])
       /\ UNCHANGED <<sales, nextSaleId, imageVars, messageVars, authVars, partyVars, requests>>

\* The operations on a vehicle's status, with the sales that confirm.
VehicleNext ==
    \/ \E req \in CreateSaleRequests : create_sale(req)
    \/ \E id \in 1..MaxSaleId, status \in StatusInputs :
          update_sale_status(id, status, FALSE)
    \/ \E v \in VehicleIds : inactivate_car(v)
    \/ \E v \in VehicleIds : inactivate_motorcycle(v)
    \/ \E v \in VehicleIds : activate_motorcycle(v)
    \/ \E v \in VehicleIds, price \in PriceInputs : update_motorcycle(v, price)

(***************************************************************************)
(* Image manager                                                           *)
(***************************************************************************)
MAX_IMAGES_PER_VEHICLE == 10
MIN_IMAGES_PER_VEHICLE == 1

\* An uploaded file is TRUE when _validate_file accepts it (extension and
\* size), FALSE when it raises.
AllValid(n) == [i \in 1..n |-> TRUE]

FileBatches == {AllValid(1), AllValid(2), AllValid(11), <<FALSE>>, <<TRUE, FALSE>>}

\* The uploads that fill a vehicle to its limit: large batches to vehicle 1,
\* single files to either vehicle.
LimitUploadInputs ==
    {<<1, files>> : files \in {AllValid(1), AllValid(9), AllValid(10), <<TRUE, FALSE>>}}
        \cup {<<2, AllValid(1)>>}

\* Image ids the callers name: the first ones created and one that never exists.
ImageIdInputs == {1, 2, 3, 99}

\* Reorder requests: a swap, a duplicate position, a move to the front, a
\* move past the end, a position out of range, an image that does not exist.
ReorderRequests ==
    {<<<<1, 2>>, <<2, 1>>>>, <<<<1, 2>>>>, <<<<3, 1>>>>, <<<<1, 3>>>>, <<<<2, 11>>>>,
     <<<<1, 1>>, <<2, 0>>>>, <<<<99, 1>>>>}

ImagesOf(imgs, vehicle_id) == {i \in DOMAIN imgs : imgs[i].vehicle_id = vehicle_id}

\* VehicleImageRepositoryImpl.count_by_vehicle_id.
count_by_vehicle_id(imgs, vehicle_id) == Cardinality(ImagesOf(imgs, vehicle_id))

\* VehicleImageRepositoryImpl.find_by_vehicle_id: the vehicle's image ids
\* ordered by position ascending; the order among equal positions is the
\* database's choice, so every order that sorts the positions is a result.
RECURSIVE SortedByPosition(_, _)
SortedByPosition(imgs, ids) ==
    IF ids = {} THEN {<<>>}
    ELSE LET first == {i \in ids : \A j \in ids : imgs[i].position <= imgs[j].position}
         IN UNION {{<<i>> \o rest : rest \in SortedByPosition(imgs, ids \ {i})} :
                   i \in first}

find_by_vehicle_id(imgs, vehicle_id) == SortedByPosition(imgs, ImagesOf(imgs, vehicle_id))

\* The number of files of a batch that are stored before _validate_file raises
\* (all of them when every file is valid).
StoredPrefix(files) ==
    IF \A i \in 1..Len(files) : files[i] THEN Len(files)
    ELSE (CHOOSE i \in 1..Len(files) :
              ~files[i] /\ \A j \in 1..(i - 1) : files[j]) - 1

\* UploadExceedsLimit counting only the files of the batch.
UploadExceedsLimit_IgnoresCount(current_count, files) ==
    Len(files) > MAX_IMAGES_PER_VEHICLE

\* VehicleImageService.upload_images, the limit check.
UploadExceedsLimit(current_count, files) ==
    current_count + Len(files) > MAX_IMAGES_PER_VEHICLE

\* UploadPosition numbering each batch from 1.
UploadPosition_FromOne(current_count, i) == i + 1

\* VehicleImageService.upload_images: the position of the i-th file (from 0) of
\* a batch uploaded to a vehicle that holds current_count images.
UploadPosition(current_count, i) == current_count + i + 1

\* POST /vehicles/{cars|motorcycles}/{id}/images: VehicleImageService.upload_images.
\* The files are stored one by one; a file that fails validation ends the call
\* and the files before it stay stored.
upload_images(vehicle_id, files) ==
    LET current_count == count_by_vehicle_id(images, vehicle_id)
        args == [vehicle_id |-> vehicle_id, files |-> files]
    IN /\ IF UploadExceedsLimit(current_count, files)
          THEN /\ lastCall' = Returned("upload_images", args, "invalid", NoBody)
               /\ UNCHANGED imageVars
          ELSE LET k == StoredPrefix(files)
                   created == [id \in nextImageId..(nextImageId + k - 1) |->
                                  LET i == id - nextImageId
                                  IN [vehicle_id |-> vehicle_id,
                                      position |-> UploadPosition(current_count, i),
                                      is_primary |-> (current_count = 0 /\ i = 0)]]
               IN /\ images' = created @@ images
                  /\ nextImageId' = nextImageId + k
                  /\ lastCall' = Returned("upload_images", args,
                                          IF k = Len(files) THEN "ok" ELSE "invalid",
                                          NoBody)
       /\ UNCHANGED <<saleVars, messageVars, authVars, partyVars, requests>>

\* VehicleImageRepositoryImpl.update_positions: each (image_id, new_position) in
\* turn, applied to the image when it belongs to the vehicle.
RECURSIVE update_positions(_, _, _)
update_positions(imgs, vehicle_id, positions) ==
    IF positions = <<>> THEN imgs
    ELSE LET image_id == Head(positions)[1]
             new_position == Head(positions)[2]
             next == IF image_id \in DOMAIN imgs /\ imgs[image_id].vehicle_id = vehicle_id
                     THEN [imgs EXCEPT ![image_id].position = new_position]
                     ELSE imgs
         IN update_positions(next, vehicle_id, Tail(positions))

\* VehicleImageRepositoryImpl.set_primary_image: clear the flag on every image
\* of the vehicle, then set it on the image when it belongs to the vehicle.
repo_set_primary_image(imgs, vehicle_id, image_id) ==
    [i \in DOMAIN imgs |->
        IF imgs[i].vehicle_id = vehicle_id
        THEN [imgs[i] EXCEPT !.is_primary = (i = image_id)]
        ELSE imgs[i]]

\* The number of rows the second update of set_primary_image changes.
SetPrimaryUpdated(imgs, vehicle_id, image_id) ==
    IF image_id \in DOMAIN imgs /\ imgs[image_id].vehicle_id = vehicle_id THEN 1 ELSE 0

\* _reorder_after_deletion without the promotion of a new primary image.
_reorder_after_deletion_NoPromotion(imgs, vehicle_id, remaining, deleted_was_primary) ==
    LET reorder_updates ==
            SelectSeq([n \in 1..Len(remaining) |-> <<remaining[n], n>>],
                      LAMBDA u : imgs[u[1]].position # u[2])
    IN IF reorder_updates # <<>>
       THEN update_positions(imgs, vehicle_id, reorder_updates)
       ELSE imgs

\* VehicleImageService._reorder_after_deletion, for one result `remaining` of
\* find_by_vehicle_id: the images get positions 1, 2, ... in that order, and
\* when the deleted image was primary the image with the least position as
\* read (the first one least) is made primary.
_reorder_after_deletion(imgs, vehicle_id, remaining, deleted_was_primary) ==
    LET reorder_updates ==
            SelectSeq([n \in 1..Len(remaining) |-> <<remaining[n], n>>],
                      LAMBDA u : imgs[u[1]].position # u[2])
        reordered == IF reorder_updates # <<>>
                     THEN update_positions(imgs, vehicle_id, reorder_updates)
                     ELSE imgs
    IN IF deleted_was_primary /\ remaining # <<>>
       THEN LET least == CHOOSE n \in 1..Len(remaining) :
                            /\ \A m \in 1..Len(remaining) :
                                  imgs[remaining[n]].position <= imgs[remaining[m]].position
                            /\ \A m \in 1..(n - 1) :
                                  imgs[remaining[m]].position # imgs[remaining[n]].position
            IN repo_set_primary_image(reordered, vehicle_id, remaining[least])
       ELSE reordered

\* DeleteBelowMinimum with a strict comparison.
DeleteBelowMinimum_Strict(current_count) == current_count < MIN_IMAGES_PER_VEHICLE

\* VehicleImageService.delete_image, the minimum check.
DeleteBelowMinimum(current_count) == current_count <= MIN_IMAGES_PER_VEHICLE

\* DELETE /vehicles/{cars|motorcycles}/{id}/images/{image_id}:
\* VehicleImageService.delete_image.
delete_image(image_id) ==
    LET args == [id |-> image_id]
    IN /\ IF image_id \notin DOMAIN images
          THEN /\ lastCall' = Returned("delete_image", args, "not_found", NoBody)
               /\ UNCHANGED imageVars
          ELSE LET image == images[image_id]
                   current_count == count_by_vehicle_id(images, image.vehicle_id)
               IN IF DeleteBelowMinimum(current_count)
                  THEN /\ lastCall' = Returned("delete_image", args, "invalid", NoBody)
                       /\ UNCHANGED imageVars
                  ELSE LET deleted == [i \in DOMAIN images \ {image_id} |-> images[i]]
                       IN /\ \E remaining \in find_by_vehicle_id(deleted, image.vehicle_id) :
                                images' = _reorder_after_deletion(deleted, image.vehicle_id,
                                                                  remaining, image.is_primary)
                          /\ lastCall' = Returned("delete_image", args, "ok",
                                                  [vehicle_id |-> image.vehicle_id,
                                                   deleted_position |-> image.position,
                                                   deleted_was_primary |-> image.is_primary])
                          /\ UNCHANGED nextImageId
       /\ UNCHANGED <<saleVars, messageVars, authVars, partyVars, requests>>

\* PATCH .../images/primary: VehicleImageService.set_primary_image.
set_primary_image(vehicle_id, image_id) ==
    /\ images' = repo_set_primary_image(images, vehicle_id, image_id)
    /\ lastCall' = Returned("set_primary_image",
                            [vehicle_id |-> vehicle_id, id |-> image_id],
                            IF SetPrimaryUpdated(images, vehicle_id, image_id) > 0
                            THEN "ok" ELSE "not_found",
                            NoBody)
    /\ UNCHANGED <<nextImageId, saleVars, messageVars, authVars, partyVars, requests>>

\* PositionOutOfRange testing the upper end only.
PositionOutOfRange_UpperOnly(position) == position > MAX_IMAGES_PER_VEHICLE

\* VehicleImageService.reorder_images, the test of one target position.
PositionOutOfRange(position) == position < 1 \/ position > MAX_IMAGES_PER_VEHICLE

\* PATCH .../images/reorder: VehicleImageService.reorder_images.
reorder_images(vehicle_id, image_positions) ==
    LET args == [vehicle_id |-> vehicle_id, image_positions |-> image_positions]
    IN /\ IF \E n \in 1..Len(image_positions) : PositionOutOfRange(image_positions[n][2])
          THEN /\ lastCall' = Returned("reorder_images", args, "invalid", NoBody)
               /\ UNCHANGED images
          ELSE /\ images' = update_positions(images, vehicle_id, image_positions)
               /\ lastCall' = Returned("reorder_images", args, "ok", NoBody)
       /\ UNCHANGED <<nextImageId, saleVars, messageVars, authVars, partyVars, requests>>

\* The image operations, creating the ids up to MaxImageId.
ImageNext ==
    \/ \E v \in VehicleIds, files \in FileBatches :
          upload_images(v, files) /\ nextImageId' <= MaxImageId + 1
    \/ \E id \in ImageIdInputs : delete_image(id)
    \/ \E v \in VehicleIds, id \in ImageIdInputs : set_primary_image(v, id)
    \/ \E v \in VehicleIds, ps \in ReorderRequests : reorder_images(v, ps)

\* The reorder requests that are a permutation of the vehicle's current
\* positions: every image of the vehicle is named once and the positions given
\* are the vehicle's current positions, each once.
PermutationRequests(imgs, vehicle_id) ==
    LET ids == ImagesOf(imgs, vehicle_id)
        current == {imgs[i].position : i \in ids}
        order == IdsAscending(ids)
    IN {[n \in 1..Len(order) |-> <<order[n], f[order[n]]>>] :
           f \in {g \in [ids -> current] : \A i, j \in ids : g[i] = g[j] => i = j}}

\* Uploads, deletions and reorders by a permutation, creating the ids up to
\* MaxImageId.
PermutationNext ==
    \/ \E v \in VehicleIds, files \in FileBatches :
          upload_images(v, files) /\ nextImageId' <= MaxImageId + 1
    \/ \E id \in ImageIdInputs : delete_image(id)
    \/ \E v \in VehicleIds :
          \E ps \in PermutationRequests(images, v) : reorder_images(v, ps)

\* Uploads and deletions only, creating the ids up to MaxUploadedId.
ImageLimitNext ==
    \/ \E u \in LimitUploadInputs :
          upload_images(u[1], u[2]) /\ nextImageId' <= MaxUploadedId + 1
    \/ \E id \in ImageIdInputs : delete_image(id)

(***************************************************************************)
(* Image manager, requests in flight                                       *)
(***************************************************************************)
\* Each repository call opens a session, runs its statements and commits; what
\* a session has written is stored when it commits and is dropped when it
\* rolls back.  Reads of other sessions see the stored rows only.
RaceImageIds == {1, 2, 99}
RaceFileBatches == {AllValid(1), AllValid(2)}

\* session.commit() of a session that wrote the is_primary flags `writes`.
commit_flags(imgs, writes) ==
    [i \in DOMAIN imgs |->
        IF i \in DOMAIN writes THEN [imgs[i] EXCEPT !.is_primary = writes[i]]
        ELSE imgs[i]]

\* rollback_flags storing what the session had written.
rollback_flags_KeepsWrites(imgs, writes) == commit_flags(imgs, writes)

\* session.rollback() in the except branch of set_primary_image.
rollback_flags(imgs, writes) == imgs

\* Another session has updated the images of the vehicle and has not ended:
\* it holds the locks of the rows with that vehicle_id (an indexed foreign key)
\* and of the gaps between them, and an UPDATE or INSERT of a row with that
\* vehicle_id waits until it ends.
HeldByOthers(r, vehicle_id) ==
    \E o \in Slots \ {r} :
        /\ requests[o].op = "set_primary_image"
        /\ requests[o].pc \in {"set", "commit"}
        /\ requests[o].vehicle_id = vehicle_id

\* A request PATCH .../images/primary arrives.
set_primary_image_begin(r, vehicle_id, image_id) ==
    /\ requests[r] = Idle
    /\ requests' = [requests EXCEPT ![r] =
                       [op |-> "set_primary_image", pc |-> "clear",
                        vehicle_id |-> vehicle_id, image_id |-> image_id,
                        writes |-> <<>>, updated |-> 0]]
    /\ UNCHANGED <<saleVars, imageVars, messageVars, authVars, partyVars, lastCall>>

\* VehicleImageRepositoryImpl.set_primary_image, the first UPDATE: is_primary
\* False on every image of the vehicle, inside the session.
set_primary_image_clear(r) ==
    /\ requests[r].op = "set_primary_image" /\ requests[r].pc = "clear"
    /\ ~HeldByOthers(r, requests[r].vehicle_id)
    /\ requests' = [requests EXCEPT
                       ![r].pc = "set",
                       ![r].writes = [i \in ImagesOf(images, requests[r].vehicle_id)
                                         |-> FALSE]]
    /\ UNCHANGED <<saleVars, imageVars, messageVars, authVars, partyVars, lastCall>>

\* The second UPDATE: is_primary True on the image with the id and the vehicle.
set_primary_image_set(r) ==
    LET q == requests[r]
        hit == q.image_id \in DOMAIN images /\ images[q.image_id].vehicle_id = q.vehicle_id
    IN /\ q.op = "set_primary_image" /\ q.pc = "set"
       /\ requests' = [requests EXCEPT
                          ![r].pc = "commit",
                          ![r].writes = IF hit THEN (q.image_id :> TRUE) @@ q.writes
                                        ELSE q.writes,
                          ![r].updated = IF hit THEN 1 ELSE 0]
       /\ UNCHANGED <<saleVars, imageVars, messageVars, authVars, partyVars, lastCall>>

\* session.commit() and `return updated > 0`; the route answers 404 when the
\* repository returned False.
set_primary_image_commit(r) ==
    LET q == requests[r]
    IN /\ q.op = "set_primary_image" /\ q.pc = "commit"
       /\ images' = commit_flags(images, q.writes)
       /\ requests' = [requests EXCEPT ![r] = Idle]
       /\ lastCall' = Returned("set_primary_image",
                               [vehicle_id |-> q.vehicle_id, id |-> q.image_id],
                               IF q.updated > 0 THEN "ok" ELSE "not_found", NoBody)
       /\ UNCHANGED <<nextImageId, saleVars, messageVars, authVars, partyVars>>

\* A statement or the commit raises: the except branch rolls the session back
\* and re-raises.
set_primary_image_rollback(r) ==
    LET q == requests[r]
    IN /\ q.op = "set_primary_image" /\ q.pc \in {"set", "commit"}
       /\ images' = rollback_flags(images, q.writes)
       /\ requests' = [requests EXCEPT ![r] = Idle]
       /\ lastCall' = Returned("set_primary_image",
                               [vehicle_id |-> q.vehicle_id, id |-> q.image_id],
                               "error", NoBody)
       /\ UNCHANGED <<nextImageId, saleVars, messageVars, authVars, partyVars>>

\* GET .../images: VehicleImageService.get_vehicle_images, a read of the stored
\* rows by another request.
get_vehicle_images(vehicle_id) ==
    /\ lastCall' = Returned("get_vehicle_images", [vehicle_id |-> vehicle_id], "ok",
                            [id |-> 0,
                             total_images |-> count_by_vehicle_id(images, vehicle_id),
                             primaries |-> {i \in ImagesOf(images, vehicle_id) :
                                               images[i].is_primary}])
    /\ UNCHANGED <<saleVars, imageVars, messageVars, authVars, partyVars, requests>>

\* Uploads, reads, and set_primary_image requests step by step.
PrimaryNext ==
    \/ \E v \in VehicleIds, files \in RaceFileBatches :
          /\ ~HeldByOthers(0, v)
          /\ upload_images(v, files) /\ nextImageId' <= MaxRaceImageId + 1
    \/ \E r \in Slots, v \in VehicleIds, id \in RaceImageIds :
          set_primary_image_begin(r, v, id)
    \/ \E r \in Slots : set_primary_image_clear(r)
    \/ \E r \in Slots : set_primary_image_set(r)
    \/ \E r \in Slots : set_primary_image_commit(r)
    \/ \E r \in Slots : set_primary_image_rollback(r)
    \/ \E v \in VehicleIds : get_vehicle_images(v)

\* delete_by_id removing nothing.
delete_by_id_Nothing(imgs, image_id) == imgs

\* VehicleImageRepositoryImpl.delete_by_id: the row is deleted and committed.
delete_by_id(imgs, image_id) == [i \in DOMAIN imgs \ {image_id} |-> imgs[i]]

\* The rows a find_by_vehicle_id returned, as read: id and position.
AsRead(imgs, ids) == [n \in 1..Len(ids) |-> [id |-> ids[n], position |-> imgs[ids[n]].position]]

\* A request DELETE .../images/{image_id} arrives.
delete_image_begin(r, image_id) ==
    /\ requests[r] = Idle
    /\ requests' = [requests EXCEPT ![r] =
                       [op |-> "delete_image", pc |-> "find_by_id", image_id |-> image_id,
                        image |-> [vehicle_id |-> 0, position |-> 0, is_primary |-> FALSE],
                        remaining |-> <<>>]]
    /\ UNCHANGED <<saleVars, imageVars, messageVars, authVars, partyVars, lastCall>>

\* delete_image: find_by_id, and 404 when there is no such image.
delete_image_find_by_id(r) ==
    LET q == requests[r]
    IN /\ q.op = "delete_image" /\ q.pc = "find_by_id"
       /\ IF q.image_id \notin DOMAIN images
          THEN /\ requests' = [requests EXCEPT ![r] = Idle]
               /\ lastCall' = Returned("delete_image", [id |-> q.image_id, slot |-> r],
                                       "not_found", NoBody)
          ELSE /\ requests' = [requests EXCEPT ![r].pc = "count_by_vehicle_id",
                                               ![r].image = images[q.image_id]]
               /\ UNCHANGED lastCall
       /\ UNCHANGED <<saleVars, imageVars, messageVars, authVars, partyVars>>

\* delete_image: count_by_vehicle_id and the minimum check.
delete_image_count_by_vehicle_id(r) ==
    LET q == requests[r]
        current_count == count_by_vehicle_id(images, q.image.vehicle_id)
    IN /\ q.op = "delete_image" /\ q.pc = "count_by_vehicle_id"
       /\ IF DeleteBelowMinimum(current_count)
          THEN /\ requests' = [requests EXCEPT ![r] = Idle]
               /\ lastCall' = Returned("delete_image", [id |-> q.image_id, slot |-> r],
                                       "invalid", NoBody)
          ELSE /\ requests' = [requests EXCEPT ![r].pc = "delete_by_id"]
               /\ UNCHANGED lastCall
       /\ UNCHANGED <<saleVars, imageVars, messageVars, authVars, partyVars>>

\* delete_image: delete_by_id; when the row is gone already it returns False,
\* no reordering is done and the route answers 404.
delete_image_delete_by_id(r) ==
    LET q == requests[r]
    IN /\ q.op = "delete_image" /\ q.pc = "delete_by_id"
       /\ IF q.image_id \notin DOMAIN images
          THEN /\ requests' = [requests EXCEPT ![r] = Idle]
               /\ lastCall' = Returned("delete_image", [id |-> q.image_id, slot |-> r],
                                       "not_found", NoBody)
               /\ UNCHANGED images
          ELSE /\ images' = delete_by_id(images, q.image_id)
               /\ requests' = [requests EXCEPT ![r].pc = "find_by_vehicle_id"]
               /\ UNCHANGED lastCall
       /\ UNCHANGED <<nextImageId, saleVars, messageVars, authVars, partyVars>>

\* _reorder_after_deletion: find_by_vehicle_id, the remaining images as read.
delete_image_find_by_vehicle_id(r) ==
    LET q == requests[r]
    IN /\ q.op = "delete_image" /\ q.pc = "find_by_vehicle_id"
       /\ \E ids \in find_by_vehicle_id(images, q.image.vehicle_id) :
             requests' = [requests EXCEPT ![r].pc = "update_positions",
                                          ![r].remaining = AsRead(images, ids)]
       /\ UNCHANGED <<saleVars, imageVars, messageVars, authVars, partyVars, lastCall>>

\* _reorder_after_deletion: the positions 1, 2, ... are computed from the rows
\* as read and written by update_positions; the call ends here unless the
\* deleted image was primary and images remain.
delete_image_update_positions(r) ==
    LET q == requests[r]
        reorder_updates ==
            SelectSeq([n \in 1..Len(q.remaining) |-> <<q.remaining[n].id, n>>],
                      LAMBDA u : \E n \in 1..Len(q.remaining) :
                                    /\ q.remaining[n].id = u[1]
                                    /\ q.remaining[n].position # u[2])
    IN /\ q.op = "delete_image" /\ q.pc = "update_positions"
       /\ images' = IF reorder_updates # <<>>
                    THEN update_positions(images, q.image.vehicle_id, reorder_updates)
                    ELSE images
       /\ IF q.image.is_primary /\ q.remaining # <<>>
          THEN /\ requests' = [requests EXCEPT ![r].pc = "set_primary_image"]
               /\ UNCHANGED lastCall
          ELSE /\ requests' = [requests EXCEPT ![r] = Idle]
               /\ lastCall' = Returned("delete_image", [id |-> q.image_id, slot |-> r],
                                       "ok", NoBody)
       /\ UNCHANGED <<nextImageId, saleVars, messageVars, authVars, partyVars>>

\* _reorder_after_deletion: set_primary_image on the image that had the least
\* position when read.
delete_image_set_primary_image(r) ==
    LET q == requests[r]
        least == CHOOSE n \in 1..Len(q.remaining) :
                    /\ \A m \in 1..Len(q.remaining) :
                          q.remaining[n].position <= q.remaining[m].position
                    /\ \A m \in 1..(n - 1) :
                          q.remaining[m].position # q.remaining[n].position
    IN /\ q.op = "delete_image" /\ q.pc = "set_primary_image"
       /\ images' = repo_set_primary_image(images, q.image.vehicle_id,
                                           q.remaining[least].id)
       /\ requests' = [requests EXCEPT ![r] = Idle]
       /\ lastCall' = Returned("delete_image", [id |-> q.image_id, slot |-> r],
                               "ok", NoBody)
       /\ UNCHANGED <<nextImageId, saleVars, messageVars, authVars, partyVars>>

\* Uploads to vehicle 1 while no request is in flight, and delete_image
\* requests step by step.
DeleteRaceNext ==
    \/ \E files \in RaceFileBatches :
          /\ \A r \in Slots : requests[r] = Idle
          /\ upload_images(1, files) /\ nextImageId' <= MaxRaceImageId + 1
    \/ \E r \in Slots, id \in 1..MaxRaceImageId : delete_image_begin(r, id)
    \/ \E r \in Slots : delete_image_find_by_id(r)
    \/ \E r \in Slots : delete_image_count_by_vehicle_id(r)
    \/ \E r \in Slots : delete_image_delete_by_id(r)
    \/ \E r \in Slots : delete_image_find_by_vehicle_id(r)
    \/ \E r \in Slots : delete_image_update_positions(r)
    \/ \E r \in Slots : delete_image_set_primary_image(r)

(***************************************************************************)
(* Message tracker                                                         *)
(***************************************************************************)
PENDING == "Pendente"
CONTACT_INITIATED == "Contato iniciado"
FINISHED == "Finalizado"
CANCELLED == "Cancelado"

MessageStatuses == {PENDING, CONTACT_INITIATED, FINISHED, CANCELLED}

\* Ids of the messages the callers name (one more than are ever created), the
\* employees a request names as responsible, and the times a call can read
\* from the clock.
MessageIdInputs == 1..(MaxMessageId + 1)
EmployeeIds == {1, 2}
Times == {1, 2}

\* HasResponsible never finding a responsible.
HasResponsible_Never(message) == FALSE

\* MessageService.start_service: the test `message.responsible_id is not None`.
HasResponsible(message) == message.responsible_id # {}

\* update_by_id clearing the fields that `updates` does not name.
update_by_id_ClearsOthers(message, updates) ==
    [f \in DOMAIN message |-> IF f \in DOMAIN updates THEN updates[f] ELSE {}]

\* MessageRepositoryImpl.update_by_id: each field of `updates` is set on the row.
update_by_id(message, updates) ==
    [f \in DOMAIN message |-> IF f \in DOMAIN updates THEN updates[f] ELSE message[f]]

\* POST /messages: MessageService.create_message.
create_message ==
    /\ nextMessageId <= MaxMessageId
    /\ messages' = (nextMessageId :> [responsible_id |-> {}, service_start_time |-> {},
                                       status |-> PENDING]) @@ messages
    /\ nextMessageId' = nextMessageId + 1
    /\ lastCall' = Returned("create_message", NoArgs, "ok", [id |-> nextMessageId])
    /\ UNCHANGED <<saleVars, imageVars, authVars, partyVars, requests>>

\* PATCH /messages/{id}/start-service: MessageService.start_service, called at
\* time `now`.
start_service(message_id, responsible_id, now) ==
    LET args == [id |-> message_id, responsible_id |-> responsible_id, now |-> now]
    IN /\ IF message_id \notin DOMAIN messages
          THEN /\ lastCall' = Returned("start_service", args, "not_found", NoBody)
               /\ UNCHANGED messages
          ELSE IF HasResponsible(messages[message_id])
          THEN /\ lastCall' = Returned("start_service", args, "has_responsible", NoBody)
               /\ UNCHANGED messages
          ELSE LET updates == [responsible_id |-> {responsible_id},
                               service_start_time |-> {now},
                               status |-> CONTACT_INITIATED]
                   updated == update_by_id(messages[message_id], updates)
               IN /\ messages' = [messages EXCEPT ![message_id] = updated]
                  /\ lastCall' = Returned("start_service", args, "ok",
                                          [id |-> message_id] @@ updated)
       /\ UNCHANGED <<nextMessageId, saleVars, imageVars, authVars, partyVars, requests>>

\* PATCH /messages/{id}/status: MessageService.update_status.
update_status(message_id, status) ==
    LET args == [id |-> message_id, status |-> status]
    IN /\ IF message_id \notin DOMAIN messages
          THEN /\ lastCall' = Returned("update_status", args, "not_found", NoBody)
               /\ UNCHANGED messages
          ELSE LET updated == update_by_id(messages[message_id], [status |-> status])
               IN /\ messages' = [messages EXCEPT ![message_id] = updated]
                  /\ lastCall' = Returned("update_status", args, "ok",
                                          [id |-> message_id] @@ updated)
       /\ UNCHANGED <<nextMessageId, saleVars, imageVars, authVars, partyVars, requests>>

\* A request PATCH /messages/{id}/start-service arrives.
start_service_begin(r, message_id, responsible_id, now) ==
    /\ requests[r] = Idle
    /\ requests' = [requests EXCEPT ![r] =
                       [op |-> "start_service", pc |-> "find_by_id",
                        message_id |-> message_id, responsible_id |-> responsible_id,
                        now |-> now]]
    /\ UNCHANGED <<saleVars, imageVars, messageVars, authVars, partyVars, lastCall>>

\* start_service: find_by_id in a session of its own, and the two tests on the
\* message as read.
start_service_find_by_id(r) ==
    LET q == requests[r]
        args == [id |-> q.message_id, responsible_id |-> q.responsible_id,
                 now |-> q.now, slot |-> r]
    IN /\ q.op = "start_service" /\ q.pc = "find_by_id"
       /\ IF q.message_id \notin DOMAIN messages
          THEN /\ requests' = [requests EXCEPT ![r] = Idle]
               /\ lastCall' = Returned("start_service", args, "not_found", NoBody)
          ELSE IF HasResponsible(messages[q.message_id])
          THEN /\ requests' = [requests EXCEPT ![r] = Idle]
               /\ lastCall' = Returned("start_service", args, "has_responsible", NoBody)
          ELSE /\ requests' = [requests EXCEPT ![r].pc = "update_by_id"]
               /\ UNCHANGED lastCall
       /\ UNCHANGED <<saleVars, imageVars, messageVars, authVars, partyVars>>

\* start_service: update_by_id in a second session, which reads the row again
\* and sets the fields of `updates` whatever the row holds.
start_service_update_by_id(r) ==
    LET q == requests[r]
        args == [id |-> q.message_id, responsible_id |-> q.responsible_id,
                 now |-> q.now, slot |-> r]
        updates == [responsible_id |-> {q.responsible_id},
                    service_start_time |-> {q.now},
                    status |-> CONTACT_INITIATED]
        updated == update_by_id(messages[q.message_id], updates)
    IN /\ q.op = "start_service" /\ q.pc = "update_by_id"
       /\ messages' = [messages EXCEPT ![q.message_id] = updated]
       /\ requests' = [requests EXCEPT ![r] = Idle]
       /\ lastCall' = Returned("start_service", args, "ok",
                               [id |-> q.message_id] @@ updated)
       /\ UNCHANGED <<nextMessageId, saleVars, imageVars, authVars, partyVars>>

\* Messages are created and start_service requests run step by step.
StartRaceNext ==
    \/ create_message
    \/ \E r \in Slots, id \in MessageIdInputs, e \in EmployeeIds, now \in Times :
          start_service_begin(r, id, e, now)
    \/ \E r \in Slots : start_service_find_by_id(r)
    \/ \E r \in Slots : start_service_update_by_id(r)

MessageNext ==
    \/ create_message
    \/ \E id \in MessageIdInputs, r \in EmployeeIds, now \in Times :
          start_service(id, r, now)
    \/ \E id \in MessageIdInputs, status \in MessageStatuses : update_status(id, status)

(***************************************************************************)
(* Identity and access                                                     *)
(***************************************************************************)
ROLE_VENDEDOR == "Vendedor"
ROLE_ADMINISTRADOR == "Administrador"

ACCESS_TOKEN_EXPIRE_MINUTES == 30

\* The clock advances by this many minutes at a time.
TickMinutes == 15

\* The stored users: an administrator, a vendor, and a user created with
\* another role (UserCreateDto.role is any string).
users == (1 :> [role |-> ROLE_ADMINISTRADOR]) @@ (2 :> [role |-> ROLE_VENDEDOR])
             @@ (3 :> [role |-> "Cliente"])

\* A token that was not signed with SECRET_KEY.
ForgedToken == [jti |-> 0, sub |-> 1, role |-> ROLE_ADMINISTRADOR, exp |-> 1000,
                signed |-> FALSE]

\* The tokens a caller can present: every token issued so far and a forged one.
PresentedTokens == tokens \cup {ForgedToken}

\* jwt.decode(token, SECRET_KEY, algorithms=[ALGORITHM]) raising PyJWTError at
\* time t: the signature does not verify or the token has expired.
DecodeFails(token, t) == ~token.signed \/ token.exp <= t

\* BlacklistedTokenRepositoryImpl.is_token_blacklisted: whether a row has the
\* jti; when the query raises (fault), the except branches return False.
is_token_blacklisted(bl, jti, fault) ==
    IF fault THEN FALSE ELSE jti \in DOMAIN bl

\* UserService._verify_token: TRUE when token data is returned, FALSE for None.
_verify_token(token, bl, t, fault) ==
    IF DecodeFails(token, t) THEN FALSE
    ELSE IF is_token_blacklisted(bl, token.jti, fault) THEN FALSE
    ELSE TRUE

\* UserService.get_current_user: the set holding the user the token resolves
\* to, empty for None.
get_current_user(token, bl, t, fault) ==
    IF ~_verify_token(token, bl, t, fault) THEN {}
    ELSE IF token.sub \notin DOMAIN users THEN {}
    ELSE {[id |-> token.sub, role |-> users[token.sub].role]}

\* POST /auth/login: UserService.login for the credentials of a stored user.
login(user_id) ==
    LET token == [jti |-> nextJti, sub |-> user_id, role |-> users[user_id].role,
                  exp |-> clock + ACCESS_TOKEN_EXPIRE_MINUTES, signed |-> TRUE]
    IN /\ nextJti <= MaxJti
       /\ tokens' = tokens \cup {token}
       /\ nextJti' = nextJti + 1
       /\ lastCall' = Returned("login", [id |-> user_id], "ok", token)
       /\ UNCHANGED <<blacklist, loggedOut, clock>>
       /\ UNCHANGED <<saleVars, imageVars, messageVars, partyVars, requests>>

\* POST /auth/logout: UserService.logout.  A second row with the same jti
\* violates the unique index and the call ends in an internal error.
logout(token) ==
    LET args == [token |-> token]
    IN /\ IF DecodeFails(token, clock)
          THEN /\ lastCall' = Returned("logout", args, "invalid", NoBody)
               /\ UNCHANGED <<blacklist, loggedOut>>
          ELSE IF token.jti \in DOMAIN blacklist
          THEN /\ lastCall' = Returned("logout", args, "error", NoBody)
               /\ UNCHANGED <<blacklist, loggedOut>>
          ELSE /\ blacklist' = (token.jti :> [user_id |-> token.sub,
                                              expires_at |-> token.exp]) @@ blacklist
               /\ loggedOut' = loggedOut \cup {token.jti}
               /\ lastCall' = Returned("logout", args, "ok", NoBody)
       /\ UNCHANGED <<tokens, clock, nextJti>>
       /\ UNCHANGED <<saleVars, imageVars, messageVars, partyVars, requests>>

\* GET /auth/me: the dependency get_current_user of auth_dependencies.py.
\* `fault` is the revocation store raising during the lookup.
current_user_info(token, fault) ==
    LET user == get_current_user(token, blacklist, clock, fault)
        args == [token |-> token, fault |-> fault]
    IN /\ IF user = {}
          THEN lastCall' = Returned("get_current_user", args, "unauthorized", NoBody)
          ELSE lastCall' = Returned("get_current_user", args, "ok", Val(user))
       /\ UNCHANGED <<authVars, saleVars, imageVars, messageVars, partyVars, requests>>

\* cleanup_expired_tokens: the filter BlacklistedToken.expires_at < current_time.
ExpiredRows(bl, current_time) == {j \in DOMAIN bl : bl[j].expires_at < current_time}

\* BlacklistedTokenRepositoryImpl.cleanup_expired_tokens.
cleanup_expired_tokens ==
    LET expired == ExpiredRows(blacklist, clock)
    IN /\ blacklist' = [j \in DOMAIN blacklist \ expired |-> blacklist[j]]
       /\ lastCall' = Returned("cleanup_expired_tokens", NoArgs, "ok",
                               [id |-> Cardinality(expired)])
       /\ UNCHANGED <<tokens, loggedOut, clock, nextJti>>
       /\ UNCHANGED <<saleVars, imageVars, messageVars, partyVars, requests>>

\* Time passes.
Tick ==
    /\ clock + TickMinutes <= MaxNow
    /\ clock' = clock + TickMinutes
    /\ lastCall' = Returned("tick", NoArgs, "ok", NoBody)
    /\ UNCHANGED <<tokens, blacklist, loggedOut, nextJti>>
    /\ UNCHANGED <<saleVars, imageVars, messageVars, partyVars, requests>>

AuthNext ==
    \/ \E u \in DOMAIN users : login(u)
    \/ \E token \in PresentedTokens : logout(token)
    \/ \E token \in PresentedTokens, fault \in BOOLEAN : current_user_info(token, fault)
    \/ cleanup_expired_tokens
    \/ Tick

(***************************************************************************)
(* Route guards                                                            *)
(***************************************************************************)
\* The routes of the sale ledger, the image manager and the message tracker.
SaleRoutes == {"create_sale", "get_sales", "update_sale", "update_sale_status",
               "delete_sale"}
ImageRoutes == {"upload_car_images", "delete_car_image", "reorder_car_images"}
MessageRoutes == {"create_message", "list_messages", "start_service", "update_status"}

Routes == SaleRoutes \cup ImageRoutes \cup MessageRoutes

\* The dependency a route declares on the caller: the image routes and the
\* message routes other than create_message declare
\* Depends(get_current_admin_or_vendedor_user); the sale routes and
\* create_message declare none.
RouteDependency(route) ==
    IF route \in ImageRoutes \cup (MessageRoutes \ {"create_message"})
    THEN "get_current_admin_or_vendedor_user"
    ELSE "none"

\* UserService.verify_admin_role and verify_vendedor_role.
verify_admin_role(user) == user.role = ROLE_ADMINISTRADOR
verify_vendedor_role(user) == user.role = ROLE_VENDEDOR

\* The dependency chain HTTPBearer -> get_current_user ->
\* get_current_admin_or_vendedor_user: a request without a bearer token is
\* refused by HTTPBearer, a token that resolves to no user is answered 401 and
\* a user with another role 403.
get_current_admin_or_vendedor_user(credentials, bl, t, fault) ==
    IF credentials = {} THEN "unauthenticated"
    ELSE LET user == get_current_user(Val(credentials), bl, t, fault)
         IN IF user = {} THEN "unauthorized"
            ELSE IF ~(verify_admin_role(Val(user)) \/ verify_vendedor_role(Val(user)))
            THEN "forbidden"
            ELSE "ok"

\* A request to a route: its dependencies are resolved, and the handler runs
\* ("ran") only when they all resolve.  What the handler then does is the
\* operation of the same name above.
request(route, credentials, fault) ==
    LET args == [route |-> route, credentials |-> credentials, fault |-> fault]
        guard == IF RouteDependency(route) = "none" THEN "ok"
                 ELSE get_current_admin_or_vendedor_user(credentials, blacklist,
                                                         clock, fault)
    IN /\ lastCall' = Returned("request", args,
                               IF guard = "ok" THEN "ran" ELSE guard, NoBody)
       /\ UNCHANGED <<authVars, saleVars, imageVars, messageVars, partyVars, requests>>

GateNext ==
    \/ \E u \in DOMAIN users : login(u)
    \/ \E token \in PresentedTokens : logout(token)
    \/ Tick
    \/ \E route \in Routes, credentials \in Opt(PresentedTokens), fault \in BOOLEAN :
          request(route, credentials, fault)

(***************************************************************************)
(* Party registry                                                          *)
(***************************************************************************)
\* Inputs of the client and employee operations.  Emails and CPFs are stored
\* and compared as the strings given; no operation rewrites them.
Emails == {"a@b.com", "c@d.com", "e@f.com"}
Cpfs == {"123.456.789-00", "987.654.321-00"}

CreatePartyRequests == [email : Emails, cpf : Cpfs]
UpdatePartyRequests == [email : Opt(Emails), cpf : Opt(Cpfs)]

ClientIdInputs == 1..(MaxClientId + 1)
EmployeeIdInputs == 1..(MaxEmployeeId + 1)

\* ClientRepositoryImpl.get_client_by_email / EmployeeRepositoryImpl.get_employee_by_email:
\* the ids of the rows with the email (the query returns the first, if any).
get_by_email(rows, email) == {i \in DOMAIN rows : rows[i].email = email}

\* ClientRepositoryImpl.get_client_by_cpf / EmployeeRepositoryImpl.get_employee_by_cpf.
get_by_cpf(rows, cpf) == {i \in DOMAIN rows : rows[i].cpf = cpf}

\* CreateConflict looking only at the email.
CreateConflict_EmailOnly(rows, req) == get_by_email(rows, req.email) # {}

\* ClientService.create_client / EmployeeService.create_employee, the two
\* lookups before the insert.
CreateConflict(rows, req) ==
    \/ get_by_email(rows, req.email) # {}
    \/ get_by_cpf(rows, req.cpf) # {}

\* ClientService.update_client / EmployeeService.update_employee, the two
\* lookups made when the request changes the email or the CPF.
UpdateConflict(rows, id, req) ==
    \/ /\ TruthyStr(req.email) /\ Val(req.email) # rows[id].email
       /\ \E other \in get_by_email(rows, Val(req.email)) : other # id
    \/ /\ TruthyStr(req.cpf) /\ Val(req.cpf) # rows[id].cpf
       /\ \E other \in get_by_cpf(rows, Val(req.cpf)) : other # id

\* The row written by an update: `request.email or existing.email`, the same
\* for the CPF.
UpdatedParty(row, req) ==
    [row EXCEPT !.email = IF TruthyStr(req.email) THEN Val(req.email) ELSE row.email,
                !.cpf = IF TruthyStr(req.cpf) THEN Val(req.cpf) ELSE row.cpf]

\* POST /clients: ClientService.create_client.
create_client(req) ==
    /\ IF CreateConflict(clients, req)
       THEN /\ lastCall' = Returned("create_client", req, "conflict", NoBody)
            /\ UNCHANGED <<clients, nextClientId>>
       ELSE /\ nextClientId <= MaxClientId
            /\ clients' = (nextClientId :> [email |-> req.email, cpf |-> req.cpf]) @@ clients
            /\ nextClientId' = nextClientId + 1
            /\ lastCall' = Returned("create_client", req, "ok", [id |-> nextClientId])
    /\ UNCHANGED <<employees, nextEmployeeId>>
    /\ UNCHANGED <<saleVars, imageVars, messageVars, authVars, requests>>

\* PUT /clients/{id}: ClientService.update_client.
update_client(client_id, req) ==
    LET args == [id |-> client_id, req |-> req]
    IN /\ IF client_id \notin DOMAIN clients
          THEN /\ lastCall' = Returned("update_client", args, "not_found", NoBody)
               /\ UNCHANGED clients
          ELSE IF UpdateConflict(clients, client_id, req)
          THEN /\ lastCall' = Returned("update_client", args, "conflict", NoBody)
               /\ UNCHANGED clients
          ELSE /\ clients' = [clients EXCEPT ![client_id] = UpdatedParty(@, req)]
               /\ lastCall' = Returned("update_client", args, "ok", [id |-> client_id])
       /\ UNCHANGED <<nextClientId, employees, nextEmployeeId>>
       /\ UNCHANGED <<saleVars, imageVars, messageVars, authVars, requests>>

\* DELETE /clients/{id}: ClientService.delete_client.
delete_client(client_id) ==
    /\ IF client_id \notin DOMAIN clients
       THEN /\ lastCall' = Returned("delete_client", [id |-> client_id], "not_found", NoBody)
            /\ UNCHANGED clients
       ELSE /\ clients' = [i \in DOMAIN clients \ {client_id} |-> clients[i]]
            /\ lastCall' = Returned("delete_client", [id |-> client_id], "ok", NoBody)
    /\ UNCHANGED <<nextClientId, employees, nextEmployeeId>>
    /\ UNCHANGED <<saleVars, imageVars, messageVars, authVars, requests>>

\* POST /employees: EmployeeService.create_employee.
create_employee(req) ==
    /\ IF CreateConflict(employees, req)
       THEN /\ lastCall' = Returned("create_employee", req, "conflict", NoBody)
            /\ UNCHANGED <<employees, nextEmployeeId>>
       ELSE /\ nextEmployeeId <= MaxEmployeeId
            /\ employees' = (nextEmployeeId :> [email |-> req.email, cpf |-> req.cpf])
                                @@ employees
            /\ nextEmployeeId' = nextEmployeeId + 1
            /\ lastCall' = Returned("create_employee", req, "ok", [id |-> nextEmployeeId])
    /\ UNCHANGED <<clients, nextClientId>>
    /\ UNCHANGED <<saleVars, imageVars, messageVars, authVars, requests>>

\* PUT /employees/{id}: EmployeeService.update_employee.
update_employee(employee_id, req) ==
    LET args == [id |-> employee_id, req |-> req]
    IN /\ IF employee_id \notin DOMAIN employees
          THEN /\ lastCall' = Returned("update_employee", args, "not_found", NoBody)
               /\ UNCHANGED employees
          ELSE IF UpdateConflict(employees, employee_id, req)
          THEN /\ lastCall' = Returned("update_employee", args, "conflict", NoBody)
               /\ UNCHANGED employees
          ELSE /\ employees' = [employees EXCEPT ![employee_id] = UpdatedParty(@, req)]
               /\ lastCall' = Returned("update_employee", args, "ok", [id |-> employee_id])
       /\ UNCHANGED <<nextEmployeeId, clients, nextClientId>>
       /\ UNCHANGED <<saleVars, imageVars, messageVars, authVars, requests>>

PartyNext ==
    \/ \E req \in CreatePartyRequests : create_client(req)
    \/ \E id \in ClientIdInputs, req \in UpdatePartyRequests : update_client(id, req)
    \/ \E id \in ClientIdInputs : delete_client(id)
    \/ \E req \in CreatePartyRequests : create_employee(req)
    \/ \E id \in EmployeeIdInputs, req \in UpdatePartyRequests : update_employee(id, req)

(***************************************************************************)
(* Sale listing                                                            *)
(***************************************************************************)
\* A stored sale with the given filter columns.
SaleRow(client_id, employee_id, status, payment, sale_date, total) ==
    SaleParties(client_id, employee_id, sale_date)
        @@ [Sale_create_sale(1, total, payment, 0, 0, 0) EXCEPT !.status = status]

\* The stored sales the listing is run against: a ledger of three sales that
\* differ in every filter column, and its prefixes.
FullLedger ==
    <<SaleRow(1, 1, "Pendente", "PIX", 1, 200),
      SaleRow(2, 1, "Confirmada", "PIX", 2, 100),
      SaleRow(1, 2, "Pendente", "Financiamento", 3, 300)>>

FilterLedgers == {SubSeq(FullLedger, 1, n) : n \in 0..Len(FullLedger)}

\* The query strings of GET /sales: every filter omitted, supplied with a
\* falsy value (0, the empty string) or supplied with a matching value.
SaleQueries ==
    [skip : {0, 1}, limit : {2},
     client_id : Opt({0, 1}), employee_id : Opt({0, 2}),
     status : Opt({"", "Pendente"}), payment_method : Opt({"PIX"}),
     start_date : Opt({2}), end_date : Opt({2}),
     order_by_value : Opt({"desc"})]

\* SaleRepository._apply_value_ordering.
_apply_value_ordering(rows, ids, order_by_value) ==
    IF order_by_value = {"desc"}
    THEN SortSeq(ids, LAMBDA a, b : rows[a].total_amount > rows[b].total_amount)
    ELSE IF order_by_value = {"asc"}
    THEN SortSeq(ids, LAMBDA a, b : rows[a].total_amount < rows[b].total_amount)
    ELSE ids

\* query.offset(skip).limit(limit).all()
Page(ids, skip, limit) ==
    SubSeq(ids, skip + 1, IF skip + limit < Len(ids) THEN skip + limit ELSE Len(ids))

\* The repository's listing queries; each filters on one column.
get_all_sales(rows, q) ==
    Page(_apply_value_ordering(rows, IdsAscending(DOMAIN rows), q.order_by_value),
         q.skip, q.limit)

get_sales_by_client(rows, client_id, q) ==
    Page(_apply_value_ordering(rows,
            SelectSeq(IdsAscending(DOMAIN rows), LAMBDA i : rows[i].client_id = client_id),
            q.order_by_value), q.skip, q.limit)

get_sales_by_employee(rows, employee_id, q) ==
    Page(_apply_value_ordering(rows,
            SelectSeq(IdsAscending(DOMAIN rows), LAMBDA i : rows[i].employee_id = employee_id),
            q.order_by_value), q.skip, q.limit)

get_sales_by_status(rows, status, q) ==
    Page(_apply_value_ordering(rows,
            SelectSeq(IdsAscending(DOMAIN rows), LAMBDA i : rows[i].status = status),
            q.order_by_value), q.skip, q.limit)

get_sales_by_payment_method(rows, payment_method, q) ==
    Page(_apply_value_ordering(rows,
            SelectSeq(IdsAscending(DOMAIN rows),
                      LAMBDA i : rows[i].payment_method = payment_method),
            q.order_by_value), q.skip, q.limit)

get_sales_by_date_range(rows, start_date, end_date, q) ==
    Page(_apply_value_ordering(rows,
            SelectSeq(IdsAscending(DOMAIN rows),
                      LAMBDA i : rows[i].sale_date >= start_date
                                 /\ rows[i].sale_date <= end_date),
            q.order_by_value), q.skip, q.limit)

\* SaleService.get_sales_with_filters, the if/elif chain: each test is the
\* truthiness of the argument, so a supplied 0 or "" counts as not supplied.
FilteredSales(rows, q) ==
    IF Truthy(q.start_date) /\ Truthy(q.end_date)
    THEN get_sales_by_date_range(rows, Val(q.start_date), Val(q.end_date), q)
    ELSE IF Truthy(q.client_id)
    THEN get_sales_by_client(rows, Val(q.client_id), q)
    ELSE IF Truthy(q.employee_id)
    THEN get_sales_by_employee(rows, Val(q.employee_id), q)
    ELSE IF TruthyStr(q.status)
    THEN get_sales_by_status(rows, Val(q.status), q)
    ELSE IF TruthyStr(q.payment_method)
    THEN get_sales_by_payment_method(rows, Val(q.payment_method), q)
    ELSE get_all_sales(rows, q)

\* GET /sales: SaleService.get_sales_with_filters; the body is the list of the
\* ids of the returned sales.
get_sales_with_filters(q) ==
    /\ lastCall' = Returned("get_sales_with_filters", q, "ok",
                            [id |-> 0, sales |-> FilteredSales(sales, q)])
    /\ UNCHANGED <<saleVars, imageVars, messageVars, authVars, partyVars, requests>>

FilterNext ==
    \E q \in SaleQueries : get_sales_with_filters(q)

(***************************************************************************)
(* Error surface of the routes                                             *)
(***************************************************************************)
\* What the service raises for each outcome of delete_image and start_service:
\* delete_image raises HTTPException with its own status code, start_service
\* raises ValueError for a missing message and for a message with a responsible.
delete_image_raises(result) ==
    IF result = "not_found" THEN [type |-> "HTTPException", status_code |-> 404]
    ELSE [type |-> "HTTPException", status_code |-> 400]

start_service_raises(result) == [type |-> "ValueError", status_code |-> 0]

\* delete_car_image and delete_motorcycle_image: the only handler is
\* `except Exception`, which also catches the service's HTTPException, and it
\* answers 400 whatever was raised.
delete_car_image(result) ==
    IF result = "ok" THEN 200
    ELSE LET e == delete_image_raises(result)
         IN IF e.type \in {"HTTPException", "ValueError", "Exception"} THEN 400 ELSE 500

\* The start-service route: ValueError is answered 404, anything else 400.
start_service_route(result) ==
    IF result = "ok" THEN 200
    ELSE LET e == start_service_raises(result)
         IN IF e.type = "ValueError" THEN 404 ELSE 400

\* The status code of the response to the last call.
status_code(call) ==
    IF call.op = "delete_image" THEN delete_car_image(call.result)
    ELSE IF call.op = "start_service" THEN start_service_route(call.result)
    ELSE 0

SaleIdInputs == 1..(MaxSaleId + 1)

SaleNext ==
    \/ \E req \in CreateSaleRequests : create_sale(req)
    \/ \E id \in SaleIdInputs : get_sale_by_id(id)
    \/ \E id \in SaleIdInputs, req \in UpdateSaleRequests : update_sale(id, req)
    \/ \E id \in SaleIdInputs, status \in StatusInputs, fault \in BOOLEAN :
          update_sale_status(id, status, fault)
    \/ \E id \in SaleIdInputs : delete_sale(id)
    \/ \E v \in VehicleIds : inactivate_car(v)
    \/ \E v \in VehicleIds : inactivate_motorcycle(v)
    \/ \E v \in VehicleIds : activate_motorcycle(v)

Init ==
    /\ sales = <<>>
    /\ nextSaleId = 1
    /\ vehicles = [v \in VehicleIds |-> "Ativo"]
    /\ images = <<>>
    /\ nextImageId = 1
    /\ messages = <<>>
    /\ nextMessageId = 1
    /\ tokens = {}
    /\ blacklist = <<>>
    /\ loggedOut = {}
    /\ clock = 0
    /\ nextJti = 1
    /\ clients = <<>>
    /\ nextClientId = 1
    /\ employees = <<>>
    /\ nextEmployeeId = 1
    /\ requests = [r \in Slots |-> Idle]
    /\ lastCall = Returned("init", NoArgs, "ok", NoBody)

SaleSpec == Init /\ [][SaleNext]_vars

\* Two sales of one vehicle, as two accepted create_sale calls leave them
\* (create_sale looks at neither the vehicle's status nor its other sales).
TwoSalesInit ==
    \E v \in VehicleIds, t1 \in TotalAmounts, t2 \in TotalAmounts, m \in ValidPaymentMethods :
       /\ sales = (1 :> (SaleParties(1, 1, 1) @@ Sale_create_sale(v, t1, m, 0, 0, 0)))
                     @@ (2 :> (SaleParties(1, 1, 1) @@ Sale_create_sale(v, t2, m, 0, 0, 0)))
       /\ nextSaleId = 3
       /\ vehicles = [x \in VehicleIds |-> "Ativo"]
       /\ images = <<>>
       /\ nextImageId = 1
       /\ messages = <<>>
       /\ nextMessageId = 1
       /\ tokens = {}
       /\ blacklist = <<>>
       /\ loggedOut = {}
       /\ clock = 0
       /\ nextJti = 1
       /\ clients = <<>>
       /\ nextClientId = 1
       /\ employees = <<>>
       /\ nextEmployeeId = 1
       /\ requests = [r \in Slots |-> Idle]
       /\ lastCall = Returned("init", NoArgs, "ok", NoBody)

TwoSalesNext ==
    \E id \in SaleIdInputs, status \in StatusInputs, fault \in BOOLEAN :
       update_sale_status(id, status, fault)

TwoSalesSpec == TwoSalesInit /\ [][TwoSalesNext]_vars

VehicleSpec == Init /\ [][VehicleNext]_vars

\* The listing run against each of the ledgers.
FilterInit ==
    /\ sales \in FilterLedgers
    /\ nextSaleId = Len(sales) + 1
    /\ vehicles = [v \in VehicleIds |-> "Ativo"]
    /\ images = <<>>
    /\ nextImageId = 1
    /\ messages = <<>>
    /\ nextMessageId = 1
    /\ tokens = {}
    /\ blacklist = <<>>
    /\ loggedOut = {}
    /\ clock = 0
    /\ nextJti = 1
    /\ clients = <<>>
    /\ nextClientId = 1
    /\ employees = <<>>
    /\ nextEmployeeId = 1
    /\ requests = [r \in Slots |-> Idle]
    /\ lastCall = Returned("init", NoArgs, "ok", NoBody)

FilterSpec == FilterInit /\ [][FilterNext]_vars

ImageSpec == Init /\ [][ImageNext]_vars

ImageLimitSpec == Init /\ [][ImageLimitNext]_vars

PermutationSpec == Init /\ [][PermutationNext]_vars

PrimarySpec == Init /\ [][PrimaryNext]_vars

DeleteRaceSpec == Init /\ [][DeleteRaceNext]_vars

MessageSpec == Init /\ [][MessageNext]_vars

StartRaceSpec == Init /\ [][StartRaceNext]_vars

AuthSpec == Init /\ [][AuthNext]_vars

GateSpec == Init /\ [][GateNext]_vars

PartySpec == Init /\ [][PartyNext]_vars

Next ==
    SaleNext \/ VehicleNext \/ FilterNext \/ ImageNext \/ ImageLimitNext \/ PermutationNext
        \/ PrimaryNext \/ DeleteRaceNext
        \/ MessageNext \/ StartRaceNext \/ AuthNext
        \/ GateNext \/ PartyNext

Spec == Init /\ [][Next]_vars

(***************************************************************************)
(* Claims on the sale ledger                                               *)
(***************************************************************************)
SaleReturningOps == {"create_sale", "update_sale", "update_sale_status", "get_sale_by_id"}

C2_DiscountWithinTotal ==
    \A id \in DOMAIN sales : sales[id].discount_amount <= sales[id].total_amount

\* C2 witness: an update_sale that would lower the total below the stored
\* discount was refused, and the stored discount is as large as the total.
C2_Witness ==
    /\ lastCall.op = "update_sale" /\ lastCall.result = "invalid"
    /\ lastCall.args.req.total_amount = {100}
    /\ \E id \in DOMAIN sales :
          /\ sales[id].discount_amount = sales[id].total_amount
          /\ sales[id].discount_amount = 200

\* C3: a create_sale whose discount exceeds its total, or whose payment method
\* is outside the allow-list, ends in a validation error and leaves the stored
\* sales as they were.
C3_InvalidCreatePersistsNothing ==
    [][(/\ lastCall'.op = "create_sale"
        /\ \/ (/\ lastCall'.args.discount_amount # {}
               /\ Val(lastCall'.args.discount_amount) > lastCall'.args.total_amount)
           \/ lastCall'.args.payment_method \notin ValidPaymentMethods)
       => (/\ lastCall'.result = "invalid"
           /\ sales' = sales
           /\ nextSaleId' = nextSaleId)]_vars

\* C3 witness: a create_sale whose discount exceeds its total has been refused
\* while a sale is stored.
C3_Witness ==
    /\ lastCall.op = "create_sale" /\ lastCall.result = "invalid"
    /\ lastCall.args.payment_method \in ValidPaymentMethods
    /\ lastCall.args.discount_amount = {200} /\ lastCall.args.total_amount = 100
    /\ DOMAIN sales # {}

\* C3 witness, second case: a create_sale with a payment method outside the
\* allow-list has been refused.
C3_WitnessPayment ==
    /\ lastCall.op = "create_sale" /\ lastCall.result = "invalid"
    /\ lastCall.args.payment_method = "Boleto"

\* C4: update_sale_status(sale_id, Confirmada) on an existing sale whose vehicle
\* exists (and whose collaborators do not raise) returns the updated sale, and
\* the vehicle's status is then Vendido.
C4_ConfirmSellsVehicle ==
    (/\ lastCall.op = "update_sale_status"
     /\ lastCall.args.status = STATUS_CONFIRMADA
     /\ ~lastCall.args.fault
     /\ lastCall.args.id \in DOMAIN sales
     /\ sales[lastCall.args.id].vehicle_id \in DOMAIN vehicles)
    => (/\ lastCall.result = "ok"
        /\ lastCall.body.status = STATUS_CONFIRMADA
        /\ vehicles[sales[lastCall.args.id].vehicle_id] = "Vendido")

\* C13: update_sale on a stored sale, with a valid payment method and status,
\* is refused exactly when the merged discount exceeds the merged total, each
\* merged value being the request's when it supplies one (a supplied 0
\* included) and the stored one otherwise; a refused update changes nothing.
C13_MergedDiscountRule ==
    [][(/\ lastCall'.op = "update_sale"
        /\ lastCall'.args.id \in DOMAIN sales
        /\ UpdateSaleRequestValid(lastCall'.args.req))
       => LET req == lastCall'.args.req
              stored == sales[lastCall'.args.id]
              total == IF req.total_amount # {} THEN Val(req.total_amount)
                       ELSE stored.total_amount
              discount == IF req.discount_amount # {} THEN Val(req.discount_amount)
                          ELSE stored.discount_amount
          IN /\ (lastCall'.result = "invalid") <=> (discount > total)
             /\ lastCall'.result = "invalid" => sales' = sales]_vars

\* C14: when the vehicle-status update of update_sale_status(sale_id,
\* Confirmada) fails (the vehicle does not exist, or the collaborator raises),
\* the call still returns the updated sale with status Confirmada.
C14_ConfirmSoftFails ==
    (/\ lastCall.op = "update_sale_status"
     /\ lastCall.args.status = STATUS_CONFIRMADA
     /\ lastCall.args.id \in DOMAIN sales
     /\ \/ lastCall.args.fault
        \/ sales[lastCall.args.id].vehicle_id \notin DOMAIN vehicles)
    => (/\ lastCall.result = "ok"
        /\ lastCall.body.status = STATUS_CONFIRMADA)

\* The filter of highest priority among those a listing query supplies.
C15_Highest(q) ==
    IF q.start_date # {} /\ q.end_date # {} THEN {"start_date", "end_date"}
    ELSE IF q.client_id # {} THEN {"client_id"}
    ELSE IF q.employee_id # {} THEN {"employee_id"}
    ELSE IF q.status # {} THEN {"status"}
    ELSE IF q.payment_method # {} THEN {"payment_method"}
    ELSE {}

\* The query with every filter but the one of highest priority omitted.
C15_OnlyHighest(q) ==
    [f \in DOMAIN q |->
        IF f \in {"start_date", "end_date", "client_id", "employee_id", "status",
                  "payment_method"} \ C15_Highest(q)
        THEN {} ELSE q[f]]

\* Every filter a query supplies has a truthy value.
C15_AllTruthy(q) ==
    /\ q.client_id # {0} /\ q.employee_id # {0}
    /\ q.status # {""} /\ q.payment_method # {""}

\* C15: get_sales_with_filters returns, for every combination of supplied
\* filters, what the supplied filter of highest priority (date range, client,
\* employee, status, payment method) returns alone.
C15_HighestFilterAlone ==
    lastCall.op = "get_sales_with_filters"
    => lastCall.body.sales = FilteredSales(sales, C15_OnlyHighest(lastCall.args))

\* C15 restricted to queries whose supplied filters are all truthy.
C15_TruthyFiltersFollowPriority ==
    (lastCall.op = "get_sales_with_filters" /\ C15_AllTruthy(lastCall.args))
    => lastCall.body.sales = FilteredSales(sales, C15_OnlyHighest(lastCall.args))

(***************************************************************************)
(* Claims on the image manager                                             *)
(***************************************************************************)
\* C5: an upload_images with current_count + len(files) > 10 is refused and
\* creates no image; one whose files are all valid and that brings the vehicle
\* to exactly 10 images is accepted; and no vehicle ever has more than 10
\* images.
C5_UploadLimit ==
    [][/\ lastCall'.op = "upload_images" =>
            LET v == lastCall'.args.vehicle_id
                files == lastCall'.args.files
                current_count == count_by_vehicle_id(images, v)
            IN /\ current_count + Len(files) > 10 =>
                     (/\ lastCall'.result = "invalid"
                      /\ images' = images
                      /\ nextImageId' = nextImageId)
               /\ (current_count + Len(files) = 10 /\ files = AllValid(Len(files))) =>
                     (/\ lastCall'.result = "ok"
                      /\ count_by_vehicle_id(images', v) = 10)
       /\ \A v \in VehicleIds : count_by_vehicle_id(images', v) <= 10]_vars

\* C5 witness: a vehicle holds 10 images and the upload of one more has just
\* been refused.
C5_Witness ==
    /\ lastCall.op = "upload_images" /\ lastCall.result = "invalid"
    /\ Len(lastCall.args.files) = 1 /\ lastCall.args.files[1]
    /\ count_by_vehicle_id(images, lastCall.args.vehicle_id) = 10

\* C6: delete_image on the only image of a vehicle fails and changes nothing,
\* and no delete_image takes a vehicle that has images down to none.
C6_SoleImageKept ==
    [][lastCall'.op = "delete_image" =>
          /\ (/\ lastCall'.args.id \in DOMAIN images
              /\ count_by_vehicle_id(images, images[lastCall'.args.id].vehicle_id) = 1)
             => (lastCall'.result = "invalid" /\ images' = images)
          /\ \A v \in VehicleIds :
                count_by_vehicle_id(images, v) >= 1 => count_by_vehicle_id(images', v) >= 1]_vars

\* C6 witness: the delete of a vehicle's only image, primary and at position 1,
\* has been refused and the image is still there.
C6_Witness ==
    /\ lastCall.op = "delete_image" /\ lastCall.result = "invalid"
    /\ lastCall.args.id \in DOMAIN images
    /\ count_by_vehicle_id(images, images[lastCall.args.id].vehicle_id) = 1
    /\ images[lastCall.args.id].is_primary
    /\ images[lastCall.args.id].position = 1

Primaries(imgs, v) == {i \in ImagesOf(imgs, v) : imgs[i].is_primary}

DensePositions(imgs, v) ==
    /\ \A i \in ImagesOf(imgs, v) : imgs[i].position \in 1..count_by_vehicle_id(imgs, v)
    /\ \A i, j \in ImagesOf(imgs, v) : imgs[i].position = imgs[j].position => i = j

\* C7: a successful delete_image leaves the vehicle's remaining images at the
\* positions 1..N, in the relative order they had, with exactly one primary.
C7_DeleteCompacts ==
    [][(lastCall'.op = "delete_image" /\ lastCall'.result = "ok") =>
          LET v == lastCall'.body.vehicle_id
          IN /\ ImagesOf(images', v) = ImagesOf(images, v) \ {lastCall'.args.id}
             /\ DensePositions(images', v)
             /\ \A i, j \in ImagesOf(images', v) :
                   images[i].position < images[j].position
                       => images'[i].position < images'[j].position
             /\ Cardinality(Primaries(images', v)) = 1]_vars

\* C7 without the primary image: positions 1..N and the relative order.
C7_DeleteCompactsPositions ==
    [][(lastCall'.op = "delete_image" /\ lastCall'.result = "ok") =>
          LET v == lastCall'.body.vehicle_id
          IN /\ ImagesOf(images', v) = ImagesOf(images, v) \ {lastCall'.args.id}
             /\ DensePositions(images', v)
             /\ \A i, j \in ImagesOf(images', v) :
                   images[i].position < images[j].position
                       => images'[i].position < images'[j].position]_vars

\* C8: when delete_image has removed the primary image of a vehicle, the image
\* at position 1 is primary and no other image of the vehicle is.
C8_PromotesFirst ==
    (/\ lastCall.op = "delete_image" /\ lastCall.result = "ok"
     /\ lastCall.body.deleted_was_primary)
    => LET v == lastCall.body.vehicle_id
       IN /\ \E i \in ImagesOf(images, v) : images[i].position = 1
          /\ \A i \in ImagesOf(images, v) :
                images[i].is_primary <=> images[i].position = 1

\* C8 witness: the primary image, not at position 1, has been deleted and two
\* images remain.
C8_Witness ==
    /\ lastCall.op = "delete_image" /\ lastCall.result = "ok"
    /\ lastCall.body.deleted_was_primary
    /\ lastCall.body.deleted_position = 2
    /\ count_by_vehicle_id(images, lastCall.body.vehicle_id) = 2

\* C9: each vehicle that has at least one image has exactly one primary image.
C9_ExactlyOnePrimary ==
    \A v \in VehicleIds :
        count_by_vehicle_id(images, v) > 0 => Cardinality(Primaries(images, v)) = 1

\* C17: an operation on an absent entity is answered as not found (404) and
\* the other refusals are not: delete_image on a missing image id against a
\* delete refused by the minimum-image rule, start_service on a missing message
\* against start_service on a message that has a responsible.
C17_NotFoundDistinct ==
    /\ (lastCall.op \in {"delete_image", "start_service"}
        /\ lastCall.result = "not_found") => status_code(lastCall) = 404
    /\ (lastCall.op \in {"delete_image", "start_service"}
        /\ lastCall.result \in {"invalid", "has_responsible"})
           => status_code(lastCall) \notin {200, 404}

\* C17 for the message tracker alone: a start_service refused because the
\* message has a responsible is not answered 404.
C17_StartServiceConflictDistinct ==
    (lastCall.op = "start_service" /\ lastCall.result = "has_responsible")
    => status_code(lastCall) # 404

\* C19: after uploads, deletes and reorders by a permutation of the vehicle's
\* current positions, each vehicle's images are at the positions 1..N, each
\* once; an upload puts its i-th stored file (from 0) at position
\* current_count + i + 1.
C19_PositionsStayDense ==
    [][/\ \A v \in VehicleIds : DensePositions(images', v)
       /\ lastCall'.op = "upload_images" =>
             \A id \in DOMAIN images' \ DOMAIN images :
                images'[id].position =
                    count_by_vehicle_id(images, lastCall'.args.vehicle_id)
                        + (id - nextImageId) + 1]_vars

\* C19 witness: an upload has added an image at position N to a vehicle whose
\* earlier images were reordered (an older image stands behind a newer one).
C19_Witness ==
    /\ lastCall.op = "upload_images" /\ lastCall.result = "ok"
    /\ LET v == lastCall.args.vehicle_id
       IN /\ \E i, j \in ImagesOf(images, v) :
                i < j /\ images[i].position > images[j].position
          /\ images[nextImageId - 1].vehicle_id = v
          /\ images[nextImageId - 1].position = count_by_vehicle_id(images, v)
          /\ count_by_vehicle_id(images, v) >= 3

\* C20: reorder_images refuses the whole request and changes no position when
\* a target position is outside 1..10; otherwise every image of the vehicle
\* that the request names gets the position given, as it is, and nothing else
\* changes: duplicate and missing positions are not refused.
C20_ReorderWritesAsGiven ==
    [][lastCall'.op = "reorder_images" =>
          LET ps == lastCall'.args.image_positions
              v == lastCall'.args.vehicle_id
              refused == \E n \in 1..Len(ps) : ps[n][2] \notin 1..10
          IN /\ (lastCall'.result = "invalid") <=> refused
             /\ refused => images' = images
             /\ ~refused =>
                   /\ lastCall'.result = "ok"
                   /\ DOMAIN images' = DOMAIN images
                   /\ \A i \in DOMAIN images :
                         LET named == {n \in 1..Len(ps) : ps[n][1] = i}
                         IN IF images[i].vehicle_id = v /\ named # {}
                            THEN \E n \in named :
                                    images'[i] = [images[i] EXCEPT !.position = ps[n][2]]
                            ELSE images'[i] = images[i]]_vars

\* C20 witness: after a reorder that left a vehicle's positions with a gap, an
\* upload has stored an image at a position another image of the vehicle holds.
C20_Witness ==
    /\ lastCall.op = "upload_images" /\ lastCall.result = "ok"
    /\ \E i \in ImagesOf(images, lastCall.args.vehicle_id) :
          /\ i < nextImageId - 1
          /\ images[nextImageId - 1].vehicle_id = images[i].vehicle_id
          /\ images[nextImageId - 1].position = images[i].position

\* C20, the duplicate: a reorder has been accepted that leaves two images of
\* the vehicle at one position.
C20_WitnessDuplicate ==
    /\ lastCall.op = "reorder_images" /\ lastCall.result = "ok"
    /\ \E i, j \in ImagesOf(images, lastCall.args.vehicle_id) :
          i # j /\ images[i].position = images[j].position

\* A step of set_primary_image between its arrival and its end: the first or
\* the second UPDATE of slot r.
C21_Statement(r) ==
    /\ requests[r].op = "set_primary_image"
    /\ requests'[r].op = "set_primary_image"
    /\ requests'[r].pc # requests[r].pc

\* C21 as stated: the two steps of set_primary_image are units of their own,
\* so the first one, once taken, leaves the stored images of the vehicle
\* without a primary image.
C21_StepsStoredSeparately ==
    [][\A r \in Slots :
          (C21_Statement(r) /\ requests[r].pc = "clear")
          => Primaries(images', requests[r].vehicle_id) = {}]_vars

\* C21, corrected: the two UPDATEs of set_primary_image are stored together or
\* not at all.  Neither UPDATE changes the stored images; a failure after
\* either leaves them as they were; the commit stores both, so that the named
\* image, when it belongs to the vehicle, is the vehicle's only primary image.
C21_PrimaryStoredAsOneUnit ==
    [][/\ \A r \in Slots : C21_Statement(r) => images' = images
       /\ (lastCall'.op = "set_primary_image" /\ lastCall'.result = "error")
             => images' = images
       /\ (lastCall'.op = "set_primary_image" /\ lastCall'.result = "ok"
           /\ lastCall' # lastCall)
             => Primaries(images', lastCall'.args.vehicle_id) = {lastCall'.args.id}]_vars

\* C21 witness: while a set_primary_image that has cleared the flags of a
\* vehicle is still in flight, a read of that vehicle has found its primary
\* image.
C21_Witness ==
    /\ lastCall.op = "get_vehicle_images"
    /\ Cardinality(lastCall.body.primaries) = 1
    /\ \E r \in Slots :
          /\ requests[r].op = "set_primary_image"
          /\ requests[r].pc \in {"set", "commit"}
          /\ requests[r].vehicle_id = lastCall.args.vehicle_id
          /\ \E i \in DOMAIN requests[r].writes : ~requests[r].writes[i]

\* C21 witness of the failure: a set_primary_image that named an image of the
\* vehicle other than its primary image has failed, and the vehicle has the
\* primary image it had.
C21_WitnessFailure ==
    /\ lastCall.op = "set_primary_image" /\ lastCall.result = "error"
    /\ lastCall.args.id \in ImagesOf(images, lastCall.args.vehicle_id)
    /\ ~images[lastCall.args.id].is_primary
    /\ Cardinality(Primaries(images, lastCall.args.vehicle_id)) = 1

\* C23: a second sale of a vehicle reaches Confirmada like the first: the call
\* succeeds, without the collaborator failing, and the vehicle ends Vendido.
C23_SecondConfirmSucceeds ==
    [][(/\ lastCall'.op = "update_sale_status"
        /\ lastCall' # lastCall
        /\ lastCall'.args.status = STATUS_CONFIRMADA
        /\ ~lastCall'.args.fault
        /\ lastCall'.args.id \in DOMAIN sales
        /\ \E o \in DOMAIN sales \ {lastCall'.args.id} :
              /\ sales[o].status = STATUS_CONFIRMADA
              /\ sales[o].vehicle_id = sales[lastCall'.args.id].vehicle_id)
          => /\ lastCall'.result = "ok"
             /\ sales'[lastCall'.args.id].status = STATUS_CONFIRMADA
             /\ vehicles'[sales[lastCall'.args.id].vehicle_id] = "Vendido"]_vars

\* C23: what the code does reach: both sales of the vehicle stored as
\* Confirmada, the last call ended in an error, the vehicle still Ativo.
C23_BothConfirmedVehicleUnsold ==
    /\ \A i \in {1, 2} : i \in DOMAIN sales /\ sales[i].status = STATUS_CONFIRMADA
    /\ sales[1].vehicle_id = sales[2].vehicle_id
    /\ lastCall.op = "update_sale_status" /\ lastCall.result = "error"
    /\ vehicles[sales[1].vehicle_id] = "Ativo"

\* C24: an upload_images call in which a file of the batch is rejected stores
\* no image of the batch: the vehicle's images, their positions and the
\* primary flags are as before.
C24_RejectedBatchStoresNothing ==
    [][(/\ lastCall'.op = "upload_images"
        /\ lastCall' # lastCall
        /\ \E i \in 1..Len(lastCall'.args.files) : ~lastCall'.args.files[i])
          => /\ lastCall'.result = "invalid"
             /\ images' = images]_vars

\* C24: what the code does reach: a batch answered with an error of which one
\* image is stored.
C24_PrefixStored ==
    /\ lastCall.op = "upload_images" /\ lastCall.result = "invalid"
    /\ lastCall.args.files = <<TRUE, FALSE>>
    /\ count_by_vehicle_id(images, lastCall.args.vehicle_id) = 1

\* C25: set_primary_image naming an image that does not exist, or belongs to
\* another vehicle, reports failure and leaves every is_primary flag as it was.
C25_FailedSetPrimaryChangesNothing ==
    [][(/\ lastCall'.op = "set_primary_image"
        /\ lastCall' # lastCall
        /\ SetPrimaryUpdated(images, lastCall'.args.vehicle_id, lastCall'.args.id) = 0)
          => /\ lastCall'.result = "not_found"
             /\ images' = images]_vars

\* C25: what the code does reach: the call reported failure and the vehicle,
\* which had a primary image, has images and no primary.
C25_FailureClearedPrimary ==
    /\ lastCall.op = "set_primary_image" /\ lastCall.result = "not_found"
    /\ ImagesOf(images, lastCall.args.vehicle_id) # {}
    /\ Primaries(images, lastCall.args.vehicle_id) = {}

\* C26: every step that stores the status Confirmada on a sale, through
\* update_sale_status or through update_sale, leaves the sale's vehicle Vendido.
C26_ConfirmedSaleSellsVehicle ==
    [][\A id \in DOMAIN sales :
          (/\ id \in DOMAIN sales'
           /\ lastCall'.op \in {"update_sale_status", "update_sale"}
           /\ lastCall' # lastCall
           /\ lastCall'.args.id = id
           /\ sales[id].status # STATUS_CONFIRMADA
           /\ sales'[id].status = STATUS_CONFIRMADA)
             => vehicles'[sales[id].vehicle_id] = "Vendido"]_vars

\* C26: what the code does reach: update_sale answered ok, the sale is
\* Confirmada and its vehicle is still Ativo.
C26_UpdateSaleConfirmsUnsold ==
    /\ lastCall.op = "update_sale" /\ lastCall.result = "ok"
    /\ lastCall.args.req.status = {STATUS_CONFIRMADA}
    /\ sales[lastCall.args.id].status = STATUS_CONFIRMADA
    /\ vehicles[sales[lastCall.args.id].vehicle_id] = "Ativo"

\* C27: update_sale_status to a status other than Confirmada, and delete_sale,
\* leave the status of every vehicle as it was, whatever the sale's status was
\* before (Confirmada included).
C27_OtherStatusesLeaveVehicles ==
    [][(/\ lastCall' # lastCall
        /\ \/ (lastCall'.op = "update_sale_status"
                  /\ lastCall'.args.status # STATUS_CONFIRMADA)
           \/ lastCall'.op = "delete_sale")
          => vehicles' = vehicles]_vars

\* C27 witness: a sale of a vehicle whose status is not the default has just
\* been cancelled, and the vehicle keeps that status.
C27_Witness ==
    /\ lastCall.op = "update_sale_status" /\ lastCall.result = "ok"
    /\ lastCall.args.status = "Cancelada"
    /\ vehicles[sales[lastCall.args.id].vehicle_id] = "Inativo"

\* C27 witness: a sale has just been deleted and a vehicle keeps a status that
\* is not the default.
C27_WitnessDelete ==
    /\ lastCall.op = "delete_sale" /\ lastCall.result = "ok"
    /\ \E v \in VehicleIds : vehicles[v] = "Inativo"

\* C22: the steps of delete_image are units of work of their own.  The count
\* check reads the stored rows and holds nothing; the row deletion is stored at
\* once, before any compaction or promotion; compaction writes positions
\* computed from rows read earlier; promotion names an image read earlier.
C22_DeleteStepsStoredSeparately ==
    [][\A r \in Slots :
          (requests[r].op = "delete_image" /\ requests'[r] # requests[r]) =>
             LET q == requests[r]
                 v == q.image.vehicle_id
             IN /\ q.pc \in {"find_by_id", "count_by_vehicle_id", "find_by_vehicle_id"}
                      => images' = images
                /\ (q.pc = "count_by_vehicle_id" /\ requests'[r] # Idle)
                      => count_by_vehicle_id(images, v) > MIN_IMAGES_PER_VEHICLE
                /\ (q.pc = "delete_by_id" /\ q.image_id \in DOMAIN images)
                      => /\ DOMAIN images' = DOMAIN images \ {q.image_id}
                         /\ \A i \in DOMAIN images' : images'[i] = images[i]
                /\ q.pc = "update_positions"
                      => /\ DOMAIN images' = DOMAIN images
                         /\ \A i \in DOMAIN images :
                               /\ images'[i].is_primary = images[i].is_primary
                               /\ images'[i].position # images[i].position
                                     => \E n \in 1..Len(q.remaining) :
                                           q.remaining[n].id = i /\ images'[i].position = n
                /\ q.pc = "set_primary_image"
                      => /\ DOMAIN images' = DOMAIN images
                         /\ \A i \in DOMAIN images :
                               images'[i].position = images[i].position]_vars

\* C22 witness: two delete_image requests on a vehicle with 2 images have both
\* passed the minimum check and both succeeded, and the vehicle has no image.
C22_Witness ==
    /\ \A r \in Slots : requests[r] = Idle
    /\ lastCall.op = "delete_image" /\ lastCall.result = "ok"
    /\ nextImageId = 3
    /\ images = <<>>

\* C22 witness: no request is in flight and the positions of the vehicle's
\* images are not 1..N.
C22_WitnessPositions ==
    /\ \A r \in Slots : requests[r] = Idle
    /\ lastCall.op = "delete_image" /\ lastCall.result = "ok"
    /\ ~DensePositions(images, 1)

\* C22 witness: no request is in flight and the vehicle has images, none of
\* them primary.
C22_WitnessPrimary ==
    /\ \A r \in Slots : requests[r] = Idle
    /\ lastCall.op = "delete_image" /\ lastCall.result = "ok"
    /\ ImagesOf(images, 1) # {}
    /\ Primaries(images, 1) = {}

(***************************************************************************)
(* Claims on the message tracker                                           *)
(***************************************************************************)
\* C10: start_service succeeds exactly when the message exists and has no
\* responsible, whatever its status; on success it sets responsible_id,
\* service_start_time and status Contato iniciado together; a start_service on
\* a message that has a responsible fails and changes nothing.
C10_StartServiceOnce ==
    [][lastCall'.op = "start_service" =>
          LET id == lastCall'.args.id
          IN /\ (lastCall'.result = "ok") <=>
                    (id \in DOMAIN messages /\ messages[id].responsible_id = {})
             /\ lastCall'.result = "ok" =>
                    messages' = [messages EXCEPT ![id] =
                                    [responsible_id |-> {lastCall'.args.responsible_id},
                                     service_start_time |-> {lastCall'.args.now},
                                     status |-> CONTACT_INITIATED]]
             /\ lastCall'.result # "ok" => messages' = messages]_vars

\* C10 witness: a second start_service, by another employee at another time,
\* on a message moved back to Pendente has been refused.
C10_Witness ==
    /\ lastCall.op = "start_service" /\ lastCall.result = "has_responsible"
    /\ LET m == messages[lastCall.args.id]
       IN /\ m.status = PENDING
          /\ m.responsible_id # {lastCall.args.responsible_id}
          /\ m.service_start_time # {lastCall.args.now}

\* C16: update_status on an existing message succeeds from any status to any
\* of the four statuses, Finalizado and Cancelado included, and changes only
\* the status: responsible_id and service_start_time stay as they were.
C16_UpdateStatusUnconditional ==
    [][(lastCall'.op = "update_status" /\ lastCall'.args.id \in DOMAIN messages) =>
          LET id == lastCall'.args.id
          IN /\ lastCall'.result = "ok"
             /\ messages' = [messages EXCEPT ![id].status = lastCall'.args.status]
             /\ messages'[id].responsible_id = messages[id].responsible_id
             /\ messages'[id].service_start_time = messages[id].service_start_time]_vars

\* C16 witness: a message that was started, and so has a responsible and a
\* start time, has been moved back to Pendente by update_status.
C16_Witness ==
    /\ lastCall.op = "update_status" /\ lastCall.result = "ok"
    /\ lastCall.args.status = PENDING
    /\ LET m == messages[lastCall.args.id]
       IN /\ m.status = PENDING
          /\ m.responsible_id # {}
          /\ m.service_start_time # {}

(***************************************************************************)
(* Claims on identity and access                                           *)
(***************************************************************************)
\* C11: once logout(token) has succeeded, no later validation of that token
\* (get_current_user, which runs _verify_token) accepts it.
C11_RevokedNeverAccepted ==
    (/\ lastCall.op = "get_current_user"
     /\ lastCall.args.token.jti \in loggedOut)
    => lastCall.result # "ok"

\* C11 while the revocation store answers every lookup: a logged-out token is
\* never accepted.
C11_RevokedRejectedWhenStoreAnswers ==
    (/\ lastCall.op = "get_current_user"
     /\ ~lastCall.args.fault
     /\ lastCall.args.token.jti \in loggedOut)
    => lastCall.result # "ok"

\* The caller of the last request holds a token that validates at the time
\* of the request, was not logged out, and resolves to an administrator or a
\* vendor.
C18_CallerAllowed ==
    /\ lastCall.args.credentials # {}
    /\ LET token == Val(lastCall.args.credentials)
       IN /\ ~DecodeFails(token, clock)
          /\ token.jti \notin loggedOut
          /\ token.sub \in DOMAIN users
          /\ users[token.sub].role \in {ROLE_ADMINISTRADOR, ROLE_VENDEDOR}

\* C18: every sale operation, every image operation and every message
\* operation other than create_message runs only for a caller whose token
\* validates and resolves to an administrator or a vendor.
C18_OnlyStaffRunOperations ==
    (/\ lastCall.op = "request"
     /\ lastCall.args.route \in Routes \ {"create_message"}
     /\ lastCall.result = "ran")
    => C18_CallerAllowed

\* C18 for the routes that declare the guard, while the revocation store
\* answers every lookup.
C18_GuardedRoutesGated ==
    (/\ lastCall.op = "request"
     /\ RouteDependency(lastCall.args.route) # "none"
     /\ ~lastCall.args.fault
     /\ lastCall.result = "ran")
    => C18_CallerAllowed

(***************************************************************************)
(* Claims on the party registry                                            *)
(***************************************************************************)
UniqueParties(rows) ==
    \A i, j \in DOMAIN rows :
        i # j => (rows[i].email # rows[j].email /\ rows[i].cpf # rows[j].cpf)

\* C12: no two stored clients share an email or a CPF, and neither do two
\* employees; a create_client (create_employee) whose email or CPF is already
\* stored ends in a conflict and creates nothing.
C12_UniqueEmailAndCpf ==
    [][/\ UniqueParties(clients') /\ UniqueParties(employees')
       /\ (/\ lastCall'.op = "create_client"
           /\ \E i \in DOMAIN clients :
                 \/ clients[i].email = lastCall'.args.email
                 \/ clients[i].cpf = lastCall'.args.cpf)
          => (lastCall'.result = "conflict" /\ clients' = clients
              /\ nextClientId' = nextClientId)
       /\ (/\ lastCall'.op = "create_employee"
           /\ \E i \in DOMAIN employees :
                 \/ employees[i].email = lastCall'.args.email
                 \/ employees[i].cpf = lastCall'.args.cpf)
          => (lastCall'.result = "conflict" /\ employees' = employees
              /\ nextEmployeeId' = nextEmployeeId)]_vars

\* C12 witness: with two clients stored, a create_client with a new email and
\* the CPF of a stored client has been refused.
C12_Witness ==
    /\ lastCall.op = "create_client" /\ lastCall.result = "conflict"
    /\ Cardinality(DOMAIN clients) = 2
    /\ get_by_email(clients, lastCall.args.email) = {}
    /\ get_by_cpf(clients, lastCall.args.cpf) # {}

\* C29: through every login, logout, cleanup and tick, a validation of a token
\* that was logged out is rejected; and the cleanup removes only revocation
\* rows whose token the expiry check already rejects.
C29_LoggedOutAlwaysRejected ==
    [][/\ \A j \in DOMAIN blacklist \ DOMAIN blacklist' :
             /\ blacklist[j].expires_at < clock
             /\ \A token \in tokens : token.jti = j => DecodeFails(token, clock)
       /\ (/\ lastCall'.op = "get_current_user"
           /\ lastCall' # lastCall
           /\ lastCall'.args.token.jti \in loggedOut)
             => lastCall'.result = "unauthorized"]_vars

\* C29, the part that holds: the cleanup removes only rows of expired tokens,
\* and each logged-out token is one that a validation answered by the
\* revocation store rejects.
C29_CleanupKeepsLoggedOutRejected ==
    [][/\ \A token \in tokens' :
             token.jti \in loggedOut' => ~_verify_token(token, blacklist', clock', FALSE)
       /\ \A j \in DOMAIN blacklist \ DOMAIN blacklist' :
             /\ blacklist[j].expires_at < clock
             /\ \A token \in tokens : token.jti = j => DecodeFails(token, clock)]_vars

\* C29: a token was logged out, its revocation row has been removed by the
\* cleanup, and a validation of the token has just been rejected.
C29_CleanedUpStillRejected ==
    /\ lastCall.op = "get_current_user" /\ lastCall.result = "unauthorized"
    /\ ~lastCall.args.fault
    /\ lastCall.args.token.jti \in loggedOut
    /\ lastCall.args.token.jti \notin DOMAIN blacklist

\* C30: update_motorcycle leaves the status of every vehicle as it was.
C30_UpdateKeepsStatus ==
    [][(lastCall'.op = "update_motorcycle" /\ lastCall' # lastCall)
          => vehicles' = vehicles]_vars

\* C30: what the code does reach: an inactivated motorcycle is Ativo after an
\* update_motorcycle that succeeded.
C30_UpdateReactivated ==
    /\ lastCall.op = "update_motorcycle" /\ lastCall.result = "ok"
    /\ vehicles[lastCall.args.id] = "Ativo"
    /\ vehicles[1] = "Inativo"

\* C28: a start_service request that succeeds writes a message that has no
\* responsible at that moment, so of two requests for one message at most one
\* succeeds and the stored responsible_id is never overwritten.
C28_ResponsibleNeverOverwritten ==
    [][\A r \in Slots :
          (/\ requests[r].op = "start_service"
           /\ requests'[r] = Idle
           /\ lastCall'.result = "ok")
             => /\ ~HasResponsible(messages[requests[r].message_id])
                /\ messages'[requests[r].message_id].responsible_id
                      = {requests[r].responsible_id}]_vars

\* C28: what the code does reach: two requests for one message, naming
\* different employees, have both passed the test and are about to write.
C28_BothPassedCheck ==
    /\ \A r \in Slots : requests[r].op = "start_service" /\ requests[r].pc = "update_by_id"
    /\ requests[1].message_id = requests[2].message_id
    /\ requests[1].responsible_id # requests[2].responsible_id

====
